---- MODULE Spec2Model ----
(***************************************************************************)
(* Pensieve: the document/annotation reconciliation core, the cross-view   *)
(* synchronisation handlers and the analysis pipeline, as state machines.  *)
(*                                                                         *)
(* Representation.                                                         *)
(*   text        a sequence of one-character strings                       *)
(*   mark        the attrs of an entity-reference mark: [id, labelType,    *)
(*               type]; "" stands for an absent (null) attribute           *)
(*   text node   [text, marks]; marks = << >> stands for "no marks field"  *)
(*   paragraph   the sequence of its text nodes (paragraph.content)        *)
(*   document    the sequence of its paragraphs (doc.content)              *)
(*   highlight   [id, labelType, text, startIndex, endIndex, position,     *)
(*               createdInGraphView]; -1 and << >> stand for absent fields *)
(*   relationship [sourceHighlightId, targetHighlightId]                   *)
(***************************************************************************)
EXTENDS Integers, Sequences, FiniteSets, TLC

VARIABLES
    \* process-wide state (SessionManager statics, highlightMap)
    recentlyRemovedHighlights, removalTimers, highlightMap,
    \* extraction harness
    exContent, exExisting, exCalls,
    \* injection harness
    injContent, injAnnotations, injEdit, injResult, injPc,
    \* the persisted session (the Dexie row) and the analysis page over it:
    \* the rendered snapshot its handlers close over, the view, the editor,
    \* React state, pending timers, continuations in flight, the clock
    db, page, viewMode, editorDoc, editorKey, pendingRemoval,
    pendingHighlightRemoval, pendingResets, saveTimers, tasks, now, uuids,
    events, opTrace,
    \* MainPage in input mode: its React state, the handleAnalyse call in
    \* flight and the number of user operations so far
    mode, isAnalysing, isTransitioning, error, analysing, operations,
    \* the graph view's layout effect: the props it runs on, localStorage, the
    \* nodes it sets and the lists it has handed to onHighlightsChange; the
    \* edges deleted with the lists handed to onRelationshipsChange
    layHighlights, layRelationships, localStorage, layNodes, layEmitted, layPc,
    relEmitted,
    \* the sessions table with its key generator, the ensureMainSession calls
    \* in flight and the error the last SessionManager call threw
    sessions, keyGenerator, migration, thrown

varsGlobal == <<recentlyRemovedHighlights, removalTimers, highlightMap>>
varsExtract == <<exContent, exExisting, exCalls>>
varsInject == <<injContent, injAnnotations, injEdit, injResult, injPc>>
varsPage == <<db, page, viewMode, editorDoc, editorKey, pendingRemoval,
              pendingHighlightRemoval, pendingResets, saveTimers, tasks, now, uuids,
              events, opTrace>>
varsMain == <<mode, isAnalysing, isTransitioning, error, analysing, operations>>
varsLayout == <<layHighlights, layRelationships, localStorage, layNodes, layEmitted, layPc,
                relEmitted>>
varsStore == <<sessions, keyGenerator, migration, thrown>>
vars == <<varsGlobal, varsExtract, varsInject, varsPage, varsMain, varsLayout, varsStore>>

----------------------------------------------------------------------------
(* Generic sequence helpers                                                *)

RECURSIVE SumLen(_)
SumLen(ss) == IF ss = << >> THEN 0 ELSE Len(Head(ss)) + SumLen(Tail(ss))

RECURSIVE Flatten(_)
Flatten(ss) == IF ss = << >> THEN << >> ELSE Head(ss) \o Flatten(Tail(ss))

Range(s) == {s[i] : i \in 1..Len(s)}

Min(S) == CHOOSE x \in S : \A y \in S : x <= y

\* Array.prototype.findIndex, 1-based; 0 when nothing matches
FindIndex(s, Test(_)) ==
    IF \E i \in 1..Len(s) : Test(s[i])
    THEN Min({i \in 1..Len(s) : Test(s[i])})
    ELSE 0

----------------------------------------------------------------------------
(* String primitives of the JavaScript runtime, on texts                   *)

\* String.prototype.indexOf: the first 0-based offset of sub in t, or -1
IndexOf(t, sub) ==
    LET hits == {i \in 0..(Len(t) - Len(sub)) : SubSeq(t, i + 1, i + Len(sub)) = sub}
    IN IF hits = {} THEN -1 ELSE Min(hits)

\* String.prototype.includes
Includes(t, sub) == IndexOf(t, sub) >= 0

Clamp(n, lo, hi) == IF n < lo THEN lo ELSE IF n > hi THEN hi ELSE n

\* String.prototype.substring(from, to): arguments clamped to [0, length]
\* and swapped when from > to
Substring(t, from, to) ==
    LET a == Clamp(from, 0, Len(t))
        b == Clamp(to, 0, Len(t))
    IN IF a <= b THEN SubSeq(t, a + 1, b) ELSE SubSeq(t, b + 1, a)

SubstringFrom(t, from) == Substring(t, from, Len(t))

----------------------------------------------------------------------------
(* Data constructors                                                       *)

NoPosition == << >>

Mark(id, labelType, type) == [id |-> id, labelType |-> labelType, type |-> type]

TextNode(text, marks) == [text |-> text, marks |-> marks]

Highlight(id, labelType, text, startIndex, endIndex, position, createdInGraphView) ==
    [id |-> id, labelType |-> labelType, text |-> text,
     startIndex |-> startIndex, endIndex |-> endIndex,
     position |-> position, createdInGraphView |-> createdInGraphView]

Relationship(source, target) ==
    [sourceHighlightId |-> source, targetHighlightId |-> target]

\* the canonical plain text of a paragraph and of a document
ParagraphText(paragraph) == Flatten([i \in 1..Len(paragraph) |-> paragraph[i].text])

PlainText(doc) == Flatten([p \in 1..Len(doc) |-> ParagraphText(doc[p])])

----------------------------------------------------------------------------
(* Annotation registry (utils/highlightMap): id -> labelType               *)

getHighlight(map, id) == IF id \in DOMAIN map THEN map[id] ELSE ""

setHighlight(map, id, labelType) ==
    [x \in DOMAIN map \cup {id} |-> IF x = id THEN labelType ELSE map[x]]

deleteHighlight(map, id) == [x \in DOMAIN map \ {id} |-> map[x]]

----------------------------------------------------------------------------
(* SessionManager.extractHighlightsFromContentMarks                        *)

\* new Map(list.map((h) => [h.id, h])).get(id): the last entry of the list
\* with this id; 0 when there is none
ExistingIndex(list, id) ==
    LET hits == {i \in 1..Len(list) : list[i].id = id}
    IN IF hits = {} THEN 0 ELSE CHOOSE i \in hits : \A j \in hits : j <= i

\* a lookup that finds no position for any id
ExistingPositionForgotten(existingHighlights, id) == NoPosition

\* existingHighlightsMap.get(id)?.position: forEach + Map.set, so the last
\* entry of the baseline with this id decides
ExistingPosition(existingHighlights, id) ==
    LET hits == {i \in 1..Len(existingHighlights) : existingHighlights[i].id = id}
    IN IF hits = {} THEN NoPosition
       ELSE existingHighlights[CHOOSE i \in hits : \A j \in hits : j <= i].position

\* the mark is skipped: no id, already seen in this pass, or recently removed
SkipMarkIgnoringRemoved(mark, seenIds, removed) ==
    mark.id = "" \/ mark.id \in seenIds

SkipMark(mark, seenIds, removed) ==
    mark.id = "" \/ mark.id \in seenIds \/ mark.id \in removed

\* a resolution that asks the registry before the mark's own attributes
ResolveLabelTypeRegistryFirst(mark, map) ==
    IF getHighlight(map, mark.id) # "" THEN getHighlight(map, mark.id)
    ELSE IF mark.labelType # "" THEN mark.labelType
    ELSE IF mark.type # "" THEN mark.type
    ELSE "claim"

\* priority: the mark's labelType, the mark's type, the registry, "claim"
ResolveLabelType(mark, map) ==
    IF mark.labelType # "" THEN mark.labelType
    ELSE IF mark.type # "" THEN mark.type
    ELSE IF getHighlight(map, mark.id) # "" THEN getHighlight(map, mark.id)
    ELSE "claim"

\* "Update the highlight map to ensure consistency"
SyncRegistryAsEvidence(map, id, labelType) == setHighlight(map, id, "evidence")

SyncRegistry(map, id, labelType) == setHighlight(map, id, labelType)

\* the record of one mark on one text node: the node's text, the running
\* offset, the position the caller's list had for the id
RunRecordFirstCharacter(id, labelType, text, textPosition, position) ==
    Highlight(id, labelType, SubSeq(text, 1, 1), textPosition,
              textPosition + Len(text), position, FALSE)

RunRecord(id, labelType, text, textPosition, position) ==
    Highlight(id, labelType, text, textPosition, textPosition + Len(text),
              position, FALSE)

\* the loop over the entity marks of one text node; acc = [highlights,
\* seenIds, map]
RECURSIVE ProcessMarks(_, _, _, _, _, _)
ProcessMarks(marks, text, textPosition, existingHighlights, removed, acc) ==
    IF marks = << >> THEN acc
    ELSE LET mark == Head(marks) IN
         IF SkipMark(mark, acc.seenIds, removed)
         THEN ProcessMarks(Tail(marks), text, textPosition, existingHighlights, removed, acc)
         ELSE LET labelType == ResolveLabelType(mark, acc.map)
                  record == RunRecord(mark.id, labelType, text, textPosition,
                                      ExistingPosition(existingHighlights, mark.id))
              IN ProcessMarks(Tail(marks), text, textPosition, existingHighlights, removed,
                              [highlights |-> Append(acc.highlights, record),
                               seenIds |-> acc.seenIds \cup {mark.id},
                               map |-> SyncRegistry(acc.map, mark.id, labelType)])

\* processNode on a text node returns its length only when it has both text
\* and marks; a text node without marks has no content and returns 0
TextNodeLength(node) == IF node.text # << >> /\ node.marks # << >> THEN Len(node.text) ELSE 0

\* processNode on a paragraph: the children in order, position advancing by
\* what each child returned
RECURSIVE ProcessChildren(_, _, _, _, _)
ProcessChildren(nodes, position, existingHighlights, removed, acc) ==
    IF nodes = << >> THEN acc
    ELSE LET node == Head(nodes)
             acc1 == IF node.text # << >> /\ node.marks # << >>
                     THEN ProcessMarks(node.marks, node.text, position,
                                       existingHighlights, removed, acc)
                     ELSE acc
         IN ProcessChildren(Tail(nodes), position + TextNodeLength(node),
                            existingHighlights, removed, acc1)

\* content.content.forEach((node) => processNode(node)): every top-level
\* block starts again at textPosition 0
RECURSIVE ProcessBlocks(_, _, _, _)
ProcessBlocks(blocks, existingHighlights, removed, acc) ==
    IF blocks = << >> THEN acc
    ELSE ProcessBlocks(Tail(blocks), existingHighlights, removed,
                       ProcessChildren(Head(blocks), 0, existingHighlights, removed, acc))

\* the whole pass: [highlights, seenIds, map], map being the registry after
\* the pass
extractHighlightsFromContentMarks(content, existingHighlights, removed, map) ==
    ProcessBlocks(content, existingHighlights, removed,
                  [highlights |-> << >>, seenIds |-> {}, map |-> map])

----------------------------------------------------------------------------
(* services/annotation/documentUtils: createDocumentWithMarks              *)

findAnnotationById(annotations, id) ==
    FindIndex(annotations, LAMBDA a : a.id = id)

\* first pass, per paragraph: a mark (of any kind) with the annotation's id
HasExistingMark(paragraph, id) ==
    \E i \in 1..Len(paragraph) :
        \E j \in 1..Len(paragraph[i].marks) : paragraph[i].marks[j].id = id

\* first pass: the annotations that fall inside this paragraph, in the order
\* of the annotation list
AnnotationsForParagraph(paragraph, annotations) ==
    SelectSeq(annotations,
              LAMBDA a : a.text # << >>
                         /\ (Includes(ParagraphText(paragraph), a.text)
                             \/ HasExistingMark(paragraph, a.id)))

ParagraphHighlight(id, labelType, text, startIndex, endIndex) ==
    [id |-> id, labelType |-> labelType, text |-> text,
     startIndex |-> startIndex, endIndex |-> endIndex]

\* mark.attrs.labelType?.toString() || mark.attrs.type?.toString() || ""
MarkLabelType(mark) == IF mark.labelType # "" THEN mark.labelType ELSE mark.type

\* the existing highlights of one text node, one per entity mark that has an
\* id and a label type
RECURSIVE NodeHighlights(_, _, _)
NodeHighlights(marks, text, pos) ==
    IF marks = << >> THEN << >>
    ELSE LET mark == Head(marks)
             rest == NodeHighlights(Tail(marks), text, pos)
         IN IF mark.id # "" /\ MarkLabelType(mark) # ""
            THEN <<ParagraphHighlight(mark.id, MarkLabelType(mark), text,
                                      pos, pos + Len(text))>> \o rest
            ELSE rest

\* "Extract existing highlights in this paragraph"
RECURSIVE ExistingHighlights(_, _)
ExistingHighlights(nodes, pos) ==
    IF nodes = << >> THEN << >>
    ELSE LET node == Head(nodes)
             here == IF node.marks # << >> /\ node.text # << >>
                     THEN NodeHighlights(node.marks, node.text, pos)
                     ELSE << >>
         IN here \o ExistingHighlights(Tail(nodes), pos + Len(node.text))

\* "Add new highlights that aren't duplicates and update text for existing
\* highlights": one annotation against the list built so far
MergeAnnotation(allHighlights, annotation, paragraphText) ==
    LET existingIndex == FindIndex(allHighlights, LAMBDA h : h.id = annotation.id)
        textIndex == IndexOf(paragraphText, annotation.text)
    IN IF existingIndex > 0
       THEN IF allHighlights[existingIndex].text # annotation.text
            THEN [allHighlights EXCEPT ![existingIndex].text = annotation.text]
            ELSE allHighlights
       ELSE IF textIndex >= 0
            THEN Append(allHighlights,
                        ParagraphHighlight(annotation.id, annotation.labelType,
                                           annotation.text, textIndex,
                                           textIndex + Len(annotation.text)))
            ELSE allHighlights

RECURSIVE MergeAnnotations(_, _, _)
MergeAnnotations(allHighlights, paragraphAnnotations, paragraphText) ==
    IF paragraphAnnotations = << >> THEN allHighlights
    ELSE MergeAnnotations(MergeAnnotation(allHighlights, Head(paragraphAnnotations),
                                          paragraphText),
                          Tail(paragraphAnnotations), paragraphText)

\* allHighlights.sort((a, b) => a.startIndex - b.startIndex): a stable sort
RECURSIVE InsertByStart(_, _)
InsertByStart(sorted, h) ==
    IF sorted = << >> THEN <<h>>
    ELSE IF Head(sorted).startIndex <= h.startIndex
         THEN <<Head(sorted)>> \o InsertByStart(Tail(sorted), h)
         ELSE <<h>> \o sorted

RECURSIVE SortByStart(_)
SortByStart(hs) ==
    IF hs = << >> THEN << >>
    ELSE InsertByStart(SortByStart(SubSeq(hs, 1, Len(hs) - 1)), hs[Len(hs)])

Segment(text, highlights, startPos) ==
    [text |-> text, highlights |-> highlights, startPos |-> startPos]

SegmentRef(h) == [id |-> h.id, labelType |-> h.labelType]

\* the first segment the highlight starts in, by the segments' start
\* positions and current text lengths; 0 when there is none
SegmentIndexFor(segments, h) ==
    FindIndex(segments,
              LAMBDA seg : h.startIndex - seg.startPos >= 0
                           /\ h.startIndex - seg.startPos < Len(seg.text))

\* "Split the segment if needed": text before, the highlighted text (the
\* annotation's text), text after
SplitSegment(segment, h) ==
    LET relStart == h.startIndex - segment.startPos
        relEnd == h.endIndex - segment.startPos
        before == IF relStart > 0
                  THEN <<Segment(Substring(segment.text, 0, relStart),
                                 segment.highlights, segment.startPos)>>
                  ELSE << >>
        middle == <<Segment(h.text, Append(segment.highlights, SegmentRef(h)),
                            segment.startPos + relStart)>>
        after == IF relEnd < Len(segment.text)
                 THEN <<Segment(SubstringFrom(segment.text, relEnd),
                                segment.highlights, segment.startPos + relEnd)>>
                 ELSE << >>
    IN before \o middle \o after

\* "Finding alternative placement": overwrite the text of the first segment
\* that already carries the id
PlaceById(segments, h, annotations) ==
    LET a == findAnnotationById(annotations, h.id)
        j == FindIndex(segments,
                       LAMBDA seg : \E k \in 1..Len(seg.highlights) :
                                        seg.highlights[k].id = h.id)
    IN IF a > 0 /\ j > 0
       THEN [segments EXCEPT ![j].text = annotations[a].text]
       ELSE segments

\* one iteration of "Split segments at each highlight boundary"
PlaceHighlight(segments, h, annotations) ==
    LET i == SegmentIndexFor(segments, h)
    IN IF i > 0
       THEN SubSeq(segments, 1, i - 1) \o SplitSegment(segments[i], h)
            \o SubSeq(segments, i + 1, Len(segments))
       ELSE PlaceById(segments, h, annotations)

RECURSIVE PlaceHighlights(_, _, _)
PlaceHighlights(segments, hs, annotations) ==
    IF hs = << >> THEN segments
    ELSE PlaceHighlights(PlaceHighlight(segments, Head(hs), annotations),
                         Tail(hs), annotations)

\* "Create new paragraph content from segments"
SegmentNode(segment) ==
    TextNode(segment.text,
             [k \in 1..Len(segment.highlights) |->
                 Mark(segment.highlights[k].id, segment.highlights[k].labelType,
                      segment.highlights[k].labelType)])

\* second pass, one paragraph
RebuildParagraph(paragraph, paragraphAnnotations, annotations) ==
    LET paragraphText == ParagraphText(paragraph)
        allHighlights ==
            SortByStart(MergeAnnotations(ExistingHighlights(paragraph, 0),
                                         paragraphAnnotations, paragraphText))
        segments == PlaceHighlights(<<Segment(paragraphText, << >>, 0)>>,
                                    allHighlights, annotations)
    IN [i \in 1..Len(segments) |-> SegmentNode(segments[i])]

createDocumentWithMarks(originalContent, annotations) ==
    IF annotations = << >> THEN originalContent
    ELSE [p \in 1..Len(originalContent) |->
            LET paragraphAnnotations ==
                    AnnotationsForParagraph(originalContent[p], annotations)
            IN IF paragraphAnnotations = << >>
               THEN originalContent[p]
               ELSE RebuildParagraph(originalContent[p], paragraphAnnotations,
                                     annotations)]

\* the registry after createDocumentWithMarks: every annotation with an id
\* and a label type is entered
RECURSIVE RegisterAnnotations(_, _)
RegisterAnnotations(map, annotations) ==
    IF annotations = << >> THEN map
    ELSE LET a == Head(annotations)
         IN RegisterAnnotations(IF a.id # "" /\ a.labelType # ""
                                THEN setHighlight(map, a.id, a.labelType)
                                ELSE map,
                                Tail(annotations))

----------------------------------------------------------------------------
(* SessionManager: the session row and the operations on it                *)

NoAnalysedContent == [content |-> << >>, highlights |-> << >>, relationships |-> << >>]

AnalysedContent(content, highlights, relationships) ==
    [content |-> content, highlights |-> highlights, relationships |-> relationships]

NoSession ==
    [exists |-> FALSE, status |-> "", inputContent |-> << >>,
     hasAnalysedContent |-> FALSE, analysedContent |-> NoAnalysedContent]

createSession(initialContent) ==
    [exists |-> TRUE, status |-> "draft", inputContent |-> initialContent,
     hasAnalysedContent |-> FALSE, analysedContent |-> NoAnalysedContent]

NewLine == "\n"

\* paragraphs' texts joined with "\n"
RECURSIVE JoinLines(_)
JoinLines(paragraphs) ==
    IF paragraphs = << >> THEN << >>
    ELSE IF Len(paragraphs) = 1 THEN ParagraphText(paragraphs[1])
    ELSE ParagraphText(paragraphs[1]) \o <<NewLine>> \o JoinLines(Tail(paragraphs))

\* [...highlights].sort((a, b) => fullText.indexOf(a.text) - fullText.indexOf(b.text))
RECURSIVE InsertByTextIndex(_, _, _)
InsertByTextIndex(sorted, h, fullText) ==
    IF sorted = << >> THEN <<h>>
    ELSE IF IndexOf(fullText, Head(sorted).text) <= IndexOf(fullText, h.text)
         THEN <<Head(sorted)>> \o InsertByTextIndex(Tail(sorted), h, fullText)
         ELSE <<h>> \o sorted

RECURSIVE SortByTextIndex(_, _)
SortByTextIndex(hs, fullText) ==
    IF hs = << >> THEN << >>
    ELSE InsertByTextIndex(SortByTextIndex(SubSeq(hs, 1, Len(hs) - 1), fullText),
                           hs[Len(hs)], fullText)

\* the errors the operations of SessionManager throw to their caller ("" when
\* they return): 'if (!session) throw new Error("Session not found")'
SessionNotFound == "Session not found"

CannotUpdate == "Cannot update analysed content: Session not found or has no analysed content"

saveAnalysisThrows(session) == IF ~session.exists THEN SessionNotFound ELSE ""

\* caught, logged and thrown again
updateAnalysedContentThrows(session) ==
    IF ~session.exists \/ ~session.hasAnalysedContent THEN CannotUpdate ELSE ""

getEffectiveContentThrows(session) == IF ~session.exists THEN SessionNotFound ELSE ""

\* an update that does not look for the analysed content of the row
updateAnalysedContentUnguarded(session, content, highlights, relationships) ==
    IF ~session.exists THEN session
    ELSE [session EXCEPT
             !.analysedContent = AnalysedContent(content, highlights, relationships)]

\* the row after saveAnalysis; a missing session makes it throw
saveAnalysis(session, content, highlights, relationships) ==
    IF ~session.exists THEN session
    ELSE LET sortedHighlights == SortByTextIndex(highlights, JoinLines(content))
         IN [session EXCEPT
                !.status = "analysis",
                !.hasAnalysedContent = TRUE,
                !.analysedContent =
                    AnalysedContent(createDocumentWithMarks(content, sortedHighlights),
                                    sortedHighlights, relationships)]

\* the row after updateAnalysedContent; it throws, writing nothing, when the
\* session or its analysed content is missing
updateAnalysedContent(session, content, highlights, relationships) ==
    IF ~session.exists \/ ~session.hasAnalysedContent THEN session
    ELSE [session EXCEPT
             !.analysedContent = AnalysedContent(content, highlights, relationships)]

\* analysed content in analysis status, the input document otherwise
getEffectiveContent(session) ==
    IF session.status = "analysis" /\ session.hasAnalysedContent
    THEN session.analysedContent
    ELSE AnalysedContent(session.inputContent, << >>, << >>)

----------------------------------------------------------------------------
(* ClaimsView: what the handlers compute from their props                  *)

\* handleDelete: the list without the deleted item
DeleteHighlight(highlights, id) == SelectSeq(highlights, LAMBDA h : h.id # id)

\* handleDelete: a claim takes the relationships it is the target of with
\* it, an evidence those it is the source of
DeleteRelationships(relationships, id, type) ==
    IF type = "claim"
    THEN SelectSeq(relationships, LAMBDA r : r.targetHighlightId # id)
    ELSE SelectSeq(relationships, LAMBDA r : r.sourceHighlightId # id)

\* `evidence-${Date.now()}` and `claim-${Date.now()}`
TimestampId(prefix, time) == prefix \o "-" \o ToString(time)

\* handleAddEvidence / handleAddClaim: the new record
CreatedHighlight(id, labelType, text) ==
    Highlight(id, labelType, text, -1, -1, NoPosition, TRUE)

\* claimsData: the cards and the evidence listed on them, as the (id, type)
\* pairs a delete button passes to handleDelete
DeletableItems(highlights, relationships) ==
    LET claims == {h \in Range(highlights) : h.labelType = "claim"}
        listed(claim) ==
            {h \in Range(highlights) :
                /\ h.labelType = "evidence"
                /\ \E r \in Range(relationships) :
                      r.targetHighlightId = claim.id /\ r.sourceHighlightId = h.id}
    IN {<<c.id, "claim">> : c \in claims}
       \cup UNION {{<<e.id, "evidence">> : e \in listed(c)} : c \in claims}

----------------------------------------------------------------------------
(* The editor document under the highlight buttons                         *)

\* a ProseMirror paragraph holds no two adjacent text nodes with the same
\* marks: they are one node
RECURSIVE JoinEqualMarks(_)
JoinEqualMarks(nodes) ==
    IF Len(nodes) < 2 THEN nodes
    ELSE IF nodes[1].marks = nodes[2].marks
         THEN JoinEqualMarks(<<TextNode(nodes[1].text \o nodes[2].text, nodes[1].marks)>>
                             \o SubSeq(nodes, 3, Len(nodes)))
         ELSE <<nodes[1]>> \o JoinEqualMarks(Tail(nodes))

\* the document an editor holds for a stored document
EditorState(content) == [p \in 1..Len(content) |-> JoinEqualMarks(content[p])]

\* commands.addEntityReference(id, {labelType, type}) over the run (p, i)
AddEntityReference(doc, p, i, id, labelType) ==
    [doc EXCEPT ![p] = JoinEqualMarks(
        [@ EXCEPT ![i].marks = Append(@, Mark(id, labelType, labelType))])]

\* the highlights at the cursor whose registry type is the button's label
HighlightsOfType(marks, map, labelId) ==
    SelectSeq(marks, LAMBDA m : getHighlight(map, m.id) = labelId)

\* the runs of the paragraph a reference covers (its from..to)
Extent(nodes, id) ==
    {k \in 1..Len(nodes) : \E j \in 1..Len(nodes[k].marks) : nodes[k].marks[j].id = id}

\* crypto.randomUUID(), the n-th of the run
Uuid(n) == "uuid-" \o ToString(n)

RECURSIVE RegisterMarks(_, _)
RegisterMarks(map, marks) ==
    IF marks = << >> THEN map
    ELSE RegisterMarks(setHighlight(map, Head(marks).id, Head(marks).labelType),
                       Tail(marks))

\* the removal loop of handleHighlight, one matching highlight at a time:
\* tr.removeMark(from, to, entityRefType) takes every entity reference off
\* the range; the other references on exactly that range whose registry type
\* is not the button's label come back under new ids; the highlight leaves
\* the registry. acc = [nodes, map, uuids, removedIds]
RECURSIVE RemoveHighlights(_, _, _, _, _)
RemoveHighlights(ofType, atCursor, original, labelId, acc) ==
    IF ofType = << >> THEN acc
    ELSE LET highlight == Head(ofType)
             range == Extent(original, highlight.id)
             kept == SelectSeq(atCursor,
                               LAMBDA m : /\ m.id # highlight.id
                                          /\ Extent(original, m.id) = range
                                          /\ getHighlight(acc.map, m.id) # ""
                                          /\ getHighlight(acc.map, m.id) # labelId)
             created == [k \in 1..Len(kept) |->
                            Mark(Uuid(acc.uuids + k), getHighlight(acc.map, kept[k].id),
                                 getHighlight(acc.map, kept[k].id))]
         IN RemoveHighlights(
                Tail(ofType), atCursor, original, labelId,
                [nodes |-> [k \in 1..Len(acc.nodes) |->
                               IF k \in range THEN TextNode(acc.nodes[k].text, created)
                               ELSE acc.nodes[k]],
                 map |-> deleteHighlight(RegisterMarks(acc.map, created), highlight.id),
                 uuids |-> acc.uuids + Len(kept),
                 removedIds |-> Append(acc.removedIds, highlight.id)])

----------------------------------------------------------------------------
(* EditorPage: the handlers, as the write each one ends in                 *)

\* a continuation in flight. pc = "read": a claims-view handler waiting for
\* getEffectiveContent; pc = "write": a handler waiting for its
\* updateAnalysedContent. closure is the session snapshot its callbacks
\* were rendered with
Task(handler, pc, id, type, text, closure, content, highlights, relationships, skipExtraction, extracted, eventNo) ==
    [handler |-> handler, pc |-> pc, id |-> id, type |-> type, text |-> text,
     closure |-> closure, content |-> content, highlights |-> highlights,
     relationships |-> relationships, skipExtraction |-> skipExtraction,
     extracted |-> extracted, eventNo |-> eventNo]

PendingWrite(handler, content, highlights, relationships, skipExtraction, extracted, eventNo) ==
    Task(handler, "write", "", "", << >>, NoSession, content, highlights,
         relationships, skipExtraction, extracted, eventNo)

\* handleClaimsHighlightsChange / handleGraphHighlightsChange: the document
\* of the snapshot re-marked with the new list, the snapshot's relationships
handleClaimsHighlightsChange(session, updatedHighlights, eventNo) ==
    IF ~session.hasAnalysedContent THEN << >>
    ELSE <<PendingWrite("handleClaimsHighlightsChange",
                        createDocumentWithMarks(session.analysedContent.content,
                                                updatedHighlights),
                        updatedHighlights, session.analysedContent.relationships,
                        FALSE, << >>, eventNo)>>

\* handleGraphRelationshipsChange: the snapshot's document and list, the new
\* relationships
handleGraphRelationshipsChange(session, updatedRelationships, eventNo) ==
    IF ~session.hasAnalysedContent THEN << >>
    ELSE <<PendingWrite("handleGraphRelationshipsChange",
                        createDocumentWithMarks(session.analysedContent.content,
                                                session.analysedContent.highlights),
                        session.analysedContent.highlights, updatedRelationships,
                        FALSE, << >>, eventNo)>>

\* "empty update that might just be a cursor movement"
IsEmptyUpdate(json) == json = << >> \/ json[1] = << >>

\* some extracted highlight is in the current list with another text
HasHighlightModifications(extractedHighlights, currentHighlights) ==
    \E k \in 1..Len(extractedHighlights) :
        LET j == ExistingIndex(currentHighlights, extractedHighlights[k].id)
        IN j > 0 /\ currentHighlights[j].text # extractedHighlights[k].text

\* handleEditorChange in analysis mode: [tasks, map], the write it ends in
\* (none for an empty update or a snapshot without analysed content) and the
\* registry after it
handleEditorChange(session, pendingRemovalState, json, skipExtraction, removed, map, eventNo) ==
    LET currentHighlights == session.analysedContent.highlights
        currentRelationships == session.analysedContent.relationships
        out == extractHighlightsFromContentMarks(json, currentHighlights, removed, map)
    IN IF IsEmptyUpdate(json) \/ ~session.hasAnalysedContent
       THEN [tasks |-> << >>, map |-> map]
       ELSE IF skipExtraction \/ pendingRemovalState
       THEN [tasks |-> <<PendingWrite("handleEditorChange", json, << >>,
                                      currentRelationships, skipExtraction,
                                      out.highlights, eventNo)>>,
             map |-> map]
       ELSE [tasks |-> <<PendingWrite("handleEditorChange", json,
                                      IF HasHighlightModifications(out.highlights,
                                                                   currentHighlights)
                                      THEN out.highlights ELSE currentHighlights,
                                      currentRelationships, FALSE, out.highlights,
                                      eventNo)>>,
             map |-> out.map]

----------------------------------------------------------------------------
(* SessionManager.markHighlightAsRemoved and its 500 ms timer              *)

\* recentlyRemovedHighlights.add(id) and one more pending setTimeout for id
AddRecentlyRemoved(removed, id) == removed \cup {id}

\* the pending timers: id -> how many, ids without a pending timer left out
TimerCount(timers, id) == IF id \in DOMAIN timers THEN timers[id] ELSE 0

ScheduleRemovalTimer(timers, id) ==
    [x \in DOMAIN timers \cup {id} |->
        IF x = id THEN TimerCount(timers, id) + 1 ELSE timers[x]]

CancelRemovalTimer(timers, id) ==
    [x \in {y \in DOMAIN timers : y # id \/ timers[y] > 1} |->
        IF x = id THEN timers[x] - 1 ELSE timers[x]]

RECURSIVE MarkAllAsRemoved(_, _)
MarkAllAsRemoved(removed, ids) ==
    IF ids = << >> THEN removed
    ELSE MarkAllAsRemoved(AddRecentlyRemoved(removed, Head(ids)), Tail(ids))

RECURSIVE ScheduleAllRemovalTimers(_, _)
ScheduleAllRemovalTimers(timers, ids) ==
    IF ids = << >> THEN timers
    ELSE ScheduleAllRemovalTimers(ScheduleRemovalTimer(timers, Head(ids)), Tail(ids))

\* the timer's callback: recentlyRemovedHighlights.delete(id)
ExpireRecentlyRemoved(removed, id) == removed \ {id}

----------------------------------------------------------------------------
(* Bounds and the input universe of the extraction harness                 *)

MaxExtractRuns == 2      \* text nodes in a document handed to extraction
MaxExtractCalls == 2     \* extraction passes over that document
MaxTimers == 1           \* pending removal timers per id

Ids == {"h1", "h2"}

FullMark(id, labelType) == Mark(id, labelType, labelType)

\* the text nodes documents are built from: unmarked text, marked runs, a
\* legacy mark that carries only an id, and a run under two marks
ExtractNodes ==
    { TextNode(<<"a">>, << >>),
      TextNode(<<"b">>, <<FullMark("h1", "claim")>>),
      TextNode(<<"a", "b">>, <<FullMark("h2", "evidence")>>),
      TextNode(<<"a">>, <<Mark("h1", "", "")>>),
      TextNode(<<"b">>, <<FullMark("h1", "claim"), FullMark("h2", "evidence")>>) }

\* the documents over a set of text nodes: up to maxNodes nodes, in one
\* paragraph or with the first node in a paragraph of its own
DocsOver(nodes, maxNodes) ==
    UNION { UNION { { IF k = 0 THEN <<ns>>
                      ELSE <<SubSeq(ns, 1, k), SubSeq(ns, k + 1, Len(ns))>> :
                      k \in 0..Min({n - 1, 1}) } : ns \in [1..n -> nodes] } :
            n \in 1..maxNodes }

ExtractDocs == DocsOver(ExtractNodes, MaxExtractRuns)

\* the caller's prior annotation list: h1 has a graph position, h2 has none
ExistingBaseline ==
    <<Highlight("h1", "claim", <<"b">>, -1, -1, <<10, 20>>, FALSE),
      Highlight("h2", "evidence", <<"a", "b">>, -1, -1, NoPosition, FALSE)>>

EmptyMap == [x \in {} |-> ""]

\* the registry an earlier injection left behind: h1 was an evidence
InitialRegistry == setHighlight(EmptyMap, "h1", "evidence")

NoTimers == [x \in {} |-> 0]

----------------------------------------------------------------------------
(* The analysis pipeline: the model service's answer, its validation, and   *)
(* what performAnalysis makes of it                                        *)

EMPTY_DOCUMENT == << << >> >>

\* SessionManager.updateInputContent
updateInputContent(session, content) ==
    IF ~session.exists THEN session ELSE [session EXCEPT !.inputContent = content]

\* a field of the parsed answer: present in the object or not, truthy (not
\* null, false, "" or 0), whether it is an array, and its items when it is
Field(truthy, isArray, items) ==
    [present |-> TRUE, truthy |-> truthy, isArray |-> isArray, items |-> items]

\* the object has no such field
NoField == [present |-> FALSE, truthy |-> FALSE, isArray |-> FALSE, items |-> << >>]

\* the field is there and holds null, false, "" or 0
FalsyField == Field(FALSE, FALSE, << >>)

\* a highlight as the model wrote it; "" and << >> stand for a missing or
\* empty property
RawHighlight(id, labelType, text) == [id |-> id, labelType |-> labelType, text |-> text]

\* the parsed content of a response: isObject is "result && typeof result
\* === 'object'"
ModelResult(isObject, highlights, relationships) ==
    [isObject |-> isObject, highlights |-> highlights, relationships |-> relationships]

NoResult == ModelResult(FALSE, NoField, NoField)

\* what executeRequest ends in: a returned ModelResponse or a thrown error
Returned(highlights, relationships) ==
    [ok |-> TRUE, error |-> "", highlights |-> highlights, relationships |-> relationships]

Thrown(message) == [ok |-> FALSE, error |-> message, highlights |-> NoField,
                    relationships |-> NoField]

\* the validated highlight: id, labelType, text (and attrs, not modelled)
ValidHighlight(highlight) ==
    Highlight(highlight.id, highlight.labelType, highlight.text, -1, -1, NoPosition, FALSE)

\* a careless validation: any object is passed on as it came
ValidateObjectOnly(result) ==
    IF ~result.isObject THEN Thrown("Response was not a JSON object")
    ELSE Returned(result.highlights, result.relationships)

\* "Validate the response format" of executeRequest
ValidateResponse(result) ==
    IF ~result.isObject THEN Thrown("Response was not a JSON object")
    ELSE IF ~result.highlights.truthy \/ ~result.highlights.isArray
    THEN Thrown("Response missing required 'highlights' array")
    ELSE IF \E k \in 1..Len(result.highlights.items) :
               LET highlight == result.highlights.items[k]
               IN highlight.id = "" \/ highlight.labelType = "" \/ highlight.text = << >>
    THEN Thrown("Highlight missing required properties (id, labelType, text)")
    ELSE IF result.relationships.truthy /\ ~result.relationships.isArray
    THEN Thrown("Response has invalid 'relationships' format")
    ELSE Returned(Field(TRUE, TRUE,
                        [k \in 1..Len(result.highlights.items) |->
                            ValidHighlight(result.highlights.items[k])]),
                  IF result.relationships.truthy THEN result.relationships
                  ELSE Field(TRUE, TRUE, << >>))

\* what fetch and the parsing of the body end in, other than a parsed result
NetworkError == "Failed to fetch"
TimeoutError == "signal is aborted without reason"
ApiError == "Anthropic API error"
JsonError == "Response was not valid JSON"

\* the catch of executeRequest: a TypeError naming fetch is tried again
\* while attempt < maxAttempts
ServiceMaxAttempts == 2

\* a catch that tries every failure again
IsRetriedWhateverFailed(message, attempt) == attempt < ServiceMaxAttempts

IsRetried(message, attempt) == message = NetworkError /\ attempt < ServiceMaxAttempts

\* the wait before the next attempt, in ms
RetryDelay(nextAttempt) == nextAttempt * 1000

\* the lists performAnalysis hands to saveAnalysis, or the error it throws
ToSave(ok, message, highlights, relationships) ==
    [ok |-> ok, error |-> message, highlights |-> highlights,
     relationships |-> relationships]

NothingToSave == ToSave(FALSE, "", << >>, << >>)

\* performAnalysis after service.analyse: its error is thrown on; "Invalid
\* analysis result" without highlights; else the lists for saveAnalysis,
\* which takes [] for what is not an array
AnalysisToSave(analysis) ==
    IF ~analysis.ok THEN ToSave(FALSE, analysis.error, << >>, << >>)
    ELSE IF ~analysis.highlights.truthy
    THEN ToSave(FALSE, "Invalid analysis result received from model service", << >>, << >>)
    ELSE ToSave(TRUE, "",
                IF analysis.highlights.isArray THEN analysis.highlights.items ELSE << >>,
                IF analysis.relationships.isArray THEN analysis.relationships.items
                ELSE << >>)

\* what performAnalysis resolves to
AnalysisResult(success, message) == [success |-> success, error |-> message]

NoAnalysisResult == AnalysisResult(FALSE, "")

\* the catch of performAnalysis
AnalysisFailed(message) == AnalysisResult(FALSE, message)

\* handleAnalyse in flight. pc: "idle"; "performAnalysis" at the call;
\* "executeRequest" at the fetch; "saveAnalysis" before the results are
\* stored; "settled" when performAnalysis has resolved.
\* session: the snapshot the handler closed over; before: the row when
\* performAnalysis was called; caught: the error the catch of executeRequest
\* caught last
Analysing(pc, session, analysisAttempts, lastError, attempt, requests, delay, caught, received, response, analysis, result, before) ==
    [pc |-> pc, session |-> session, analysisAttempts |-> analysisAttempts,
     lastError |-> lastError, attempt |-> attempt, requests |-> requests,
     delay |-> delay, caught |-> caught, received |-> received, response |-> response,
     analysis |-> analysis, result |-> result, before |-> before]

NotAnalysing ==
    Analysing("idle", NoSession, 0, "", 0, 0, 0, "", FALSE, NoResult, NothingToSave,
              NoAnalysisResult, NoSession)

\* the harnesses a specification does not use stay idle
IdleMain ==
    /\ mode = "input"
    /\ isAnalysing = FALSE
    /\ isTransitioning = FALSE
    /\ error = ""
    /\ analysing = NotAnalysing
    /\ operations = 0

IdleExtract == exContent = << >> /\ exExisting = << >> /\ exCalls = << >>

NoEdit == [id |-> "", oldText |-> << >>, newText |-> << >>]

NoOperation ==
    [handler |-> "", id |-> "", highlights |-> << >>, relationships |-> << >>,
     eventNo |-> 0, clean |-> FALSE, computed |-> FALSE]

IdlePage ==
    /\ db = NoSession
    /\ page = [session |-> NoSession, pendingHighlightRemoval |-> FALSE]
    /\ viewMode = "text"
    /\ editorDoc = << >>
    /\ editorKey = 0
    /\ pendingRemoval = FALSE
    /\ pendingHighlightRemoval = FALSE
    /\ pendingResets = 0
    /\ saveTimers = << >>
    /\ tasks = << >>
    /\ now = 0
    /\ uuids = 0
    /\ events = 0
    /\ opTrace = NoOperation

IdleLayout ==
    /\ layHighlights = << >>
    /\ layRelationships = << >>
    /\ localStorage = << >>
    /\ layNodes = << >>
    /\ layEmitted = << >>
    /\ layPc = "idle"
    /\ relEmitted = << >>

IdleStore ==
    /\ sessions = << >>
    /\ keyGenerator = 0
    /\ migration = << >>
    /\ thrown = ""

IdleInject ==
    /\ injContent = << >>
    /\ injAnnotations = << >>
    /\ injEdit = NoEdit
    /\ injResult = << >>
    /\ injPc = "idle"

----------------------------------------------------------------------------
(* SpecExtract: extraction passes over one unchanged document, with        *)
(* removals and timer expiries in between                                  *)

InitExtract ==
    /\ exContent \in ExtractDocs
    /\ exExisting = ExistingBaseline
    /\ exCalls = << >>
    /\ recentlyRemovedHighlights = {}
    /\ removalTimers = NoTimers
    /\ highlightMap = InitialRegistry
    /\ IdleInject
    /\ IdleLayout
    /\ IdleStore
    /\ IdlePage
    /\ IdleMain

\* HighlightButtons removal branch, as far as the process-wide state goes:
\* deleteHighlight(id), then markHighlightAsRemoved(id)
ExRemoveHighlight(id) ==
    /\ TimerCount(removalTimers, id) < MaxTimers
    /\ highlightMap' = deleteHighlight(highlightMap, id)
    /\ recentlyRemovedHighlights' = AddRecentlyRemoved(recentlyRemovedHighlights, id)
    /\ removalTimers' = ScheduleRemovalTimer(removalTimers, id)
    /\ UNCHANGED <<varsMain, varsExtract, varsInject, varsLayout, varsStore, varsPage>>

\* one pending timer of id fires
RemovalTimerFires(id) ==
    /\ TimerCount(removalTimers, id) > 0
    /\ removalTimers' = CancelRemovalTimer(removalTimers, id)
    /\ recentlyRemovedHighlights' = ExpireRecentlyRemoved(recentlyRemovedHighlights, id)
    /\ UNCHANGED <<varsMain, highlightMap, varsExtract, varsInject, varsLayout, varsStore, varsPage>>

\* the passes made so far; exCalls keeps the last two of them
CallsMade == IF exCalls = << >> THEN 0 ELSE exCalls[Len(exCalls)].call

LastTwo(calls) == IF Len(calls) <= 2 THEN calls ELSE SubSeq(calls, Len(calls) - 1, Len(calls))

\* one extraction pass; the call is recorded with the state it ran in
ExExtract ==
    /\ CallsMade < MaxExtractCalls
    /\ LET out == extractHighlightsFromContentMarks(exContent, exExisting,
                                                    recentlyRemovedHighlights, highlightMap)
       IN /\ exCalls' = LastTwo(Append(exCalls, [call |-> CallsMade + 1,
                                                 highlights |-> out.highlights,
                                                 removed |-> recentlyRemovedHighlights,
                                                 mapBefore |-> highlightMap,
                                                 mapAfter |-> out.map]))
          /\ highlightMap' = out.map
    /\ UNCHANGED <<varsMain, recentlyRemovedHighlights, removalTimers, exContent, exExisting,
                   varsInject, varsLayout, varsStore, varsPage>>

NextExtract ==
    \/ \E id \in Ids : ExRemoveHighlight(id)
    \/ \E id \in DOMAIN removalTimers : RemovalTimerFires(id)
    \/ ExExtract

SpecExtract == InitExtract /\ [][NextExtract]_vars

\* the text nodes of a document in reading order, and those that carry marks
DocNodes(doc) == Flatten(doc)

AnnotatedRuns(doc) == SelectSeq(DocNodes(doc), LAMBDA node : node.marks # << >>)

MarkedIds(doc) ==
    UNION { {DocNodes(doc)[i].marks[j].id : j \in 1..Len(DocNodes(doc)[i].marks)} :
            i \in 1..Len(DocNodes(doc)) }

\* every annotated run carries one mark, and no two runs carry the same id
NonOverlapping(doc) == \A i \in 1..Len(DocNodes(doc)) : Len(DocNodes(doc)[i].marks) <= 1

DistinctRunIds(doc) ==
    LET runs == AnnotatedRuns(doc)
    IN \A i, j \in 1..Len(runs) : i # j => runs[i].marks[1].id # runs[j].marks[1].id

\* what a list says about ids, types, texts and order
Summary(highlights) ==
    [k \in 1..Len(highlights) |->
        <<highlights[k].id, highlights[k].labelType, highlights[k].text>>]

\* C5: an extraction pass run while an id is in the recently-removed set
\* returns no annotation with that id, whatever marks the document carries.
C5_RemovedNeverExtracted ==
    \A c \in 1..Len(exCalls) :
        \A k \in 1..Len(exCalls[c].highlights) :
            exCalls[c].highlights[k].id \notin exCalls[c].removed

\* C5 witness: a pass ran while the id of a mark of the document was in the
\* recently-removed set
C5_Witness ==
    \E c \in 1..Len(exCalls) : exCalls[c].removed \cap MarkedIds(exContent) # {}

\* C6: when the annotated runs of the document are non-overlapping, carry
\* pairwise distinct ids and none of those ids is recently removed, a pass
\* returns exactly one record per annotated run, in reading order, with the
\* run's id and the run's text.
C6_OneRecordPerRun ==
    \A c \in 1..Len(exCalls) :
        (NonOverlapping(exContent) /\ DistinctRunIds(exContent)
         /\ exCalls[c].removed \cap MarkedIds(exContent) = {})
        => LET runs == AnnotatedRuns(exContent)
               out == exCalls[c].highlights
           IN /\ Len(out) = Len(runs)
              /\ \A k \in 1..Len(runs) :
                    out[k].id = runs[k].marks[1].id /\ out[k].text = runs[k].text

\* C6 witness: a pass over a two-paragraph document with two such runs, the
\* second in the second paragraph
C6_Witness ==
    /\ Len(exCalls) > 0
    /\ NonOverlapping(exContent) /\ DistinctRunIds(exContent)
    /\ exCalls[1].removed = {}
    /\ Len(exContent) = 2
    /\ Len(AnnotatedRuns(exContent)) = 2
    /\ Len(exCalls[1].highlights) = 2

\* C9 as stated: any two successive passes over the unchanged document
\* return lists with the same ids, types, texts and order.
C9_SuccessiveCallsEqual ==
    \A c \in 1..(Len(exCalls) - 1) :
        Summary(exCalls[c + 1].highlights) = Summary(exCalls[c].highlights)

\* C9 amended: two successive passes over the unchanged document return
\* lists with the same ids, types, texts and order when the recently-removed
\* set is the same at both passes and the registry at the second pass is as
\* the first pass left it.
C9_SuccessiveCallsEqualWhenUndisturbed ==
    \A c \in 1..(Len(exCalls) - 1) :
        (exCalls[c + 1].removed = exCalls[c].removed
         /\ exCalls[c + 1].mapBefore = exCalls[c].mapAfter)
        => Summary(exCalls[c + 1].highlights) = Summary(exCalls[c].highlights)

\* C9 witness: two undisturbed passes that both return a record whose type
\* came from the registry or the default
C9_Witness ==
    /\ Len(exCalls) = 2
    /\ exCalls[2].removed = exCalls[1].removed
    /\ exCalls[2].mapBefore = exCalls[1].mapAfter
    /\ \E i \in 1..Len(DocNodes(exContent)) :
          /\ DocNodes(exContent)[i].marks = <<Mark("h1", "", "")>>
    /\ exCalls[2].highlights # << >>

----------------------------------------------------------------------------
(* SpecInject: a document is extracted, the list is optionally edited the  *)
(* way the claims view edits a text, and injected back into the document   *)

MaxInjectRuns == 3       \* text nodes in a document handed to injection

InjectNodes ==
    { TextNode(<<"a">>, << >>),
      TextNode(<<"b">>, << >>),
      TextNode(<<"a">>, <<FullMark("h1", "claim")>>),
      TextNode(<<"b">>, <<FullMark("h2", "evidence")>>),
      TextNode(<<"a", "b">>, <<FullMark("h2", "evidence")>>) }

InjectDocs == DocsOver(InjectNodes, MaxInjectRuns)

\* the texts an annotation is edited to: shorter, longer, present elsewhere
EditTexts == { <<"c">>, <<"c", "c">>, <<"b">> }

InitInject ==
    /\ injContent \in InjectDocs
    /\ injAnnotations = << >>
    /\ injEdit = NoEdit
    /\ injResult = << >>
    /\ injPc = "start"
    /\ recentlyRemovedHighlights = {}
    /\ removalTimers = NoTimers
    /\ highlightMap = EmptyMap
    /\ IdleExtract
    /\ IdlePage
    /\ IdleMain
    /\ IdleLayout
    /\ IdleStore

\* the annotation list of the document, by extraction
InjExtract ==
    /\ injPc = "start"
    /\ LET out == extractHighlightsFromContentMarks(injContent, << >>,
                                                    recentlyRemovedHighlights, highlightMap)
       IN /\ injAnnotations' = out.highlights
          /\ highlightMap' = out.map
    /\ injPc' = "extracted"
    /\ UNCHANGED <<varsMain, varsLayout, varsStore, recentlyRemovedHighlights, removalTimers, injContent, injEdit,
                   injResult, varsExtract, varsPage>>

\* ClaimsView.handleEdit: the highlight at index i gets the new text
EditHighlightText(highlights, i, newText) == [highlights EXCEPT ![i].text = newText]

InjEdit(i, newText) ==
    /\ injPc = "extracted"
    /\ i \in 1..Len(injAnnotations)
    /\ newText # injAnnotations[i].text
    /\ injAnnotations' = EditHighlightText(injAnnotations, i, newText)
    /\ injEdit' = [id |-> injAnnotations[i].id, oldText |-> injAnnotations[i].text,
                   newText |-> newText]
    /\ injPc' = "edited"
    /\ UNCHANGED <<varsMain, varsLayout, varsStore, varsGlobal, injContent, injResult, varsExtract, varsPage>>

\* createDocumentWithMarks(document, list)
InjInject ==
    /\ injPc \in {"extracted", "edited"}
    /\ injResult' = createDocumentWithMarks(injContent, injAnnotations)
    /\ highlightMap' = IF injAnnotations = << >> THEN highlightMap
                       ELSE RegisterAnnotations(highlightMap, injAnnotations)
    /\ injPc' = "injected"
    /\ UNCHANGED <<varsMain, varsLayout, varsStore, recentlyRemovedHighlights, removalTimers, injContent, injAnnotations,
                   injEdit, varsExtract, varsPage>>

NextInject ==
    \/ InjExtract
    \/ \E i \in 1..MaxInjectRuns, t \in EditTexts : InjEdit(i, t)
    \/ InjInject

SpecInject == InitInject /\ [][NextInject]_vars

\* the runs of a document that carry a mark with this id, in reading order
RunsMarked(doc, id) ==
    SelectSeq(DocNodes(doc),
              LAMBDA node : \E j \in 1..Len(node.marks) : node.marks[j].id = id)

\* C7 as stated: for a document with non-overlapping annotated runs (taken
\* here with pairwise distinct ids as well), injecting the list extracted
\* from it back into it gives a document with the same plain text.
C7_RoundTripKeepsPlainText ==
    (injPc = "injected" /\ injEdit = NoEdit
     /\ NonOverlapping(injContent) /\ DistinctRunIds(injContent))
    => PlainText(injResult) = PlainText(injContent)

\* C7 witness: a round trip over a document with two annotated runs
C7_Witness ==
    /\ injPc = "injected" /\ injEdit = NoEdit
    /\ NonOverlapping(injContent)
    /\ Len(AnnotatedRuns(injContent)) = 2
    /\ PlainText(injResult) = PlainText(injContent)

\* C8 as stated: when annotation a is marked on one run and the list is
\* injected with a's text changed to Y, the result has exactly one run marked
\* a, its text is Y, and the runs of every other annotation keep their text
\* and marks.
C8_EditedTextReplacesRun ==
    (injPc = "injected" /\ injEdit # NoEdit
     /\ Len(RunsMarked(injContent, injEdit.id)) = 1)
    => /\ Len(RunsMarked(injResult, injEdit.id)) = 1
       /\ RunsMarked(injResult, injEdit.id)[1].text = injEdit.newText
       /\ \A b \in MarkedIds(injContent) \ {injEdit.id} :
             RunsMarked(injResult, b) = RunsMarked(injContent, b)

\* C8 witness: an edit to a longer text, next to another annotated run, that
\* did come out as the claim says
C8_Witness ==
    /\ injPc = "injected" /\ injEdit # NoEdit
    /\ Len(RunsMarked(injContent, injEdit.id)) = 1
    /\ Len(injEdit.newText) > Len(injEdit.oldText)
    /\ MarkedIds(injContent) = Ids
    /\ Len(RunsMarked(injResult, injEdit.id)) = 1
    /\ RunsMarked(injResult, injEdit.id)[1].text = injEdit.newText

----------------------------------------------------------------------------
(* Spec: the analysis page over one analysed session. Every handler is     *)
(* split at its awaits; what runs between two awaits is one step.          *)

MaxEvents == 2           \* user operations on the page
MaxTasks == 3            \* continuations in flight
MaxNow == 1              \* the last reading of Date.now(), from 0
MaxUuids == 1            \* ids drawn from crypto.randomUUID()

\* the analysed sessions the page is opened on: the input document and the
\* model's answer that saveAnalysis stored
InitialInput == <<<<TextNode(<<"a", "c", "b">>, << >>)>>>>

InitialAnswers ==
    { [highlights |-> <<Highlight("c1", "claim", <<"a">>, -1, -1, NoPosition, FALSE),
                        Highlight("e1", "evidence", <<"b">>, -1, -1, NoPosition, FALSE)>>,
       relationships |-> <<Relationship("e1", "c1")>>],
      [highlights |-> <<Highlight("e1", "evidence", <<"b">>, -1, -1, NoPosition, FALSE),
                        Highlight("c1", "claim", <<"a">>, -1, -1, NoPosition, FALSE)>>,
       relationships |-> << >>] }

\* the texts typed into the claims view (one that stands in the document,
\* one that does not) and into the editor
NewTexts == { <<"c">>, <<"d">> }

TypedTexts == { <<"d">> }

LabelTypes == {"claim", "evidence"}

ViewModes == {"text", "graph", "claims"}

ClaimsHandlers == {"handleDelete", "handleAddEvidence", "handleAddClaim"}

Remove(seq, i) == SubSeq(seq, 1, i - 1) \o SubSeq(seq, i + 1, Len(seq))

\* what the views are rendered with: content = getEffectiveContent
Props == getEffectiveContent(page.session)

HighlightIds(highlights) == {highlights[k].id : k \in 1..Len(highlights)}

\* room for one more continuation; a claims-view handler ends in two more
TaskLoad == Len(tasks) + Cardinality({i \in 1..Len(tasks) : tasks[i].handler \in ClaimsHandlers})

\* the page over a freshly analysed session, in the given view, for one of
\* the given answers of the model
InitPageOn(view, answers) ==
    /\ \E answer \in answers :
          /\ db = saveAnalysis(createSession(InitialInput), InitialInput,
                               answer.highlights, answer.relationships)
          /\ highlightMap = RegisterAnnotations(EmptyMap, answer.highlights)
    /\ page = [session |-> db, pendingHighlightRemoval |-> FALSE]
    /\ viewMode = view
    /\ editorDoc = EditorState(db.analysedContent.content)
    /\ editorKey = Len(db.analysedContent.highlights)
    /\ pendingRemoval = FALSE
    /\ pendingHighlightRemoval = FALSE
    /\ pendingResets = 0
    /\ saveTimers = << >>
    /\ tasks = << >>
    /\ now = 0
    /\ uuids = 0
    /\ events = 0
    /\ opTrace = NoOperation
    /\ recentlyRemovedHighlights = {}
    /\ removalTimers = NoTimers
    /\ IdleExtract
    /\ IdleInject
    /\ IdleLayout
    /\ IdleStore
    /\ IdleMain

InitPage(view) == InitPageOn(view, InitialAnswers)

Init == \E view \in {"graph", "claims"} : InitPage(view)

InitEditor == InitPage("text")

\* the live queries deliver the row and React renders: the handlers of the
\* views close over the new snapshot; the editor is keyed by the number of
\* highlights and starts again from the stored document when it changes
Render ==
    /\ page # [session |-> db, pendingHighlightRemoval |-> pendingHighlightRemoval]
    /\ page' = [session |-> db, pendingHighlightRemoval |-> pendingHighlightRemoval]
    /\ IF viewMode = "text" /\ Len(getEffectiveContent(db).highlights) # editorKey
       THEN /\ editorDoc' = EditorState(getEffectiveContent(db).content)
            /\ editorKey' = Len(getEffectiveContent(db).highlights)
            /\ pendingRemoval' = FALSE
       ELSE UNCHANGED <<editorDoc, editorKey, pendingRemoval>>
    /\ UNCHANGED <<varsMain, varsGlobal, varsExtract, varsInject, varsLayout, varsStore, db, viewMode,
                   pendingHighlightRemoval, pendingResets, saveTimers, tasks, now, uuids,
                   events, opTrace>>

\* setViewMode(mode); the text view mounts an editor on the rendered content
SwitchView(view) ==
    /\ view # viewMode
    /\ viewMode' = view
    /\ IF view = "text"
       THEN /\ editorDoc' = EditorState(Props.content)
            /\ editorKey' = Len(Props.highlights)
            /\ pendingRemoval' = FALSE
       ELSE UNCHANGED <<editorDoc, editorKey, pendingRemoval>>
    /\ UNCHANGED <<varsMain, varsGlobal, varsExtract, varsInject, varsLayout, varsStore, db, page,
                   pendingHighlightRemoval, pendingResets, saveTimers, tasks, now, uuids,
                   events, opTrace>>

\* a connect that appends the relationship without looking for it in the list
GraphConnectUnchecked(source, target) ==
    /\ viewMode = "graph"
    /\ events < MaxEvents /\ TaskLoad < MaxTasks
    /\ source \in HighlightIds(Props.highlights)
    /\ target \in HighlightIds(Props.highlights)
    /\ source # target
    /\ tasks' = tasks \o handleGraphRelationshipsChange(
                            page.session,
                            Append(Props.relationships, Relationship(source, target)),
                            events + 1)
    /\ events' = events + 1
    /\ UNCHANGED <<varsMain, varsGlobal, varsExtract, varsInject, varsLayout, varsStore, db, page, viewMode, editorDoc,
                   editorKey, pendingRemoval, pendingHighlightRemoval, pendingResets,
                   saveTimers, now, uuids, opTrace>>

\* ArgumentGraph.onConnect(source -> target)
GraphConnect(source, target) ==
    /\ viewMode = "graph"
    /\ events < MaxEvents /\ TaskLoad < MaxTasks
    /\ source \in HighlightIds(Props.highlights)
    /\ target \in HighlightIds(Props.highlights)
    /\ source # target
    /\ tasks' = IF Relationship(source, target) \in Range(Props.relationships)
                THEN tasks
                ELSE tasks \o handleGraphRelationshipsChange(
                                  page.session,
                                  Append(Props.relationships, Relationship(source, target)),
                                  events + 1)
    /\ events' = events + 1
    /\ UNCHANGED <<varsMain, varsGlobal, varsExtract, varsInject, varsLayout, varsStore, db, page, viewMode, editorDoc,
                   editorKey, pendingRemoval, pendingHighlightRemoval, pendingResets,
                   saveTimers, now, uuids, opTrace>>

\* a claims-view handler is invoked: it runs up to its first await
\* (getEffectiveContent), holding the props and callbacks it was rendered with
InvokeClaimsHandler(handler, id, type, text) ==
    /\ viewMode = "claims"
    /\ events < MaxEvents /\ TaskLoad + 2 <= MaxTasks
    /\ tasks' = Append(tasks, Task(handler, "read", id, type, text, page.session,
                                   << >>, << >>, << >>, FALSE, << >>, events + 1))
    /\ events' = events + 1
    /\ opTrace' = [handler |-> handler, id |-> id, highlights |-> << >>,
                   relationships |-> << >>, eventNo |-> events + 1,
                   clean |-> (tasks = << >> /\ saveTimers = << >>),
                   computed |-> FALSE]
    /\ UNCHANGED <<varsMain, varsGlobal, varsExtract, varsInject, varsLayout, varsStore, db, page, viewMode, editorDoc,
                   editorKey, pendingRemoval, pendingHighlightRemoval, pendingResets,
                   saveTimers, now, uuids>>

\* ClaimCard delete button -> ClaimsView.handleDelete(id, type)
ClaimsDelete(id, type) ==
    /\ <<id, type>> \in DeletableItems(Props.highlights, Props.relationships)
    /\ InvokeClaimsHandler("handleDelete", id, type, << >>)

\* ClaimCard add-evidence form -> ClaimsView.handleAddEvidence(claimId, text)
ClaimsAddEvidence(claimId, text) ==
    /\ <<claimId, "claim">> \in DeletableItems(Props.highlights, Props.relationships)
    /\ InvokeClaimsHandler("handleAddEvidence", claimId, "", text)

\* ClaimsView.handleAddClaim(text)
ClaimsAddClaim(text) == InvokeClaimsHandler("handleAddClaim", "", "", text)

\* the lists a claims-view handler computes from its props once
\* getEffectiveContent has answered
ComputedHighlights(task, time) ==
    LET highlights == getEffectiveContent(task.closure).highlights
    IN IF task.handler = "handleDelete" THEN DeleteHighlight(highlights, task.id)
       ELSE IF task.handler = "handleAddEvidence"
       THEN Append(highlights,
                   CreatedHighlight(TimestampId("evidence", time), "evidence", task.text))
       ELSE Append(highlights,
                   CreatedHighlight(TimestampId("claim", time), "claim", task.text))

ComputedRelationships(task, time) ==
    LET relationships == getEffectiveContent(task.closure).relationships
    IN IF task.handler = "handleDelete"
       THEN DeleteRelationships(relationships, task.id, task.type)
       ELSE IF task.handler = "handleAddEvidence"
       THEN Append(relationships, Relationship(TimestampId("evidence", time), task.id))
       ELSE relationships

\* getEffectiveContent answers with the stored document; the handler computes
\* its lists, reading Date.now() (time: the clock has not gone back since the
\* last reading), and waits for the import
ClaimsRead(i, time) ==
    /\ i \in 1..Len(tasks)
    /\ tasks[i].handler \in ClaimsHandlers /\ tasks[i].pc = "read"
    /\ time >= now /\ time <= MaxNow
    /\ now' = time
    /\ tasks' = [tasks EXCEPT ![i] =
                    [@ EXCEPT !.pc = "write",
                              !.content = getEffectiveContent(db).content,
                              !.highlights = ComputedHighlights(tasks[i], time),
                              !.relationships = ComputedRelationships(tasks[i], time)]]
    /\ opTrace' = IF opTrace.eventNo = tasks[i].eventNo
                  THEN [opTrace EXCEPT !.computed = TRUE,
                                       !.highlights = ComputedHighlights(tasks[i], time),
                                       !.relationships = ComputedRelationships(tasks[i], time)]
                  ELSE opTrace
    /\ UNCHANGED <<varsMain, varsGlobal, varsExtract, varsInject, varsLayout, varsStore, db, page, viewMode, editorDoc,
                   editorKey, pendingRemoval, pendingHighlightRemoval, pendingResets,
                   saveTimers, uuids, events>>

\* the handler re-marks the document it read, writes the triple with
\* updateAnalysedContent and then calls onHighlightsChange and (delete, add
\* evidence) onRelationshipsChange, each running up to its own await
ClaimsWrite(i) ==
    /\ i \in 1..Len(tasks)
    /\ tasks[i].handler \in ClaimsHandlers /\ tasks[i].pc = "write"
    /\ LET task == tasks[i]
           updatedContent == createDocumentWithMarks(task.content, task.highlights)
           notified ==
               IF ~db.exists \/ ~db.hasAnalysedContent THEN << >>
               ELSE handleClaimsHighlightsChange(task.closure, task.highlights,
                                                 task.eventNo)
                    \o (IF task.handler = "handleAddClaim" THEN << >>
                        ELSE handleGraphRelationshipsChange(task.closure,
                                                            task.relationships,
                                                            task.eventNo))
       IN /\ db' = updateAnalysedContent(db, updatedContent, task.highlights,
                                         task.relationships)
          /\ highlightMap' = RegisterAnnotations(highlightMap, task.highlights)
          /\ tasks' = Remove(tasks, i) \o notified
    /\ UNCHANGED <<varsMain, recentlyRemovedHighlights, removalTimers, varsExtract, varsInject, varsLayout, varsStore,
                   page, viewMode, editorDoc, editorKey, pendingRemoval,
                   pendingHighlightRemoval, pendingResets, saveTimers, now, uuids,
                   events, opTrace>>

\* a page handler's updateAnalysedContent goes through; the handlers that
\* re-mark the document have entered their list in the registry by then
HandlerWrite(i) ==
    /\ i \in 1..Len(tasks)
    /\ tasks[i].handler \notin ClaimsHandlers /\ tasks[i].pc = "write"
    /\ db' = updateAnalysedContent(db, tasks[i].content, tasks[i].highlights,
                                   tasks[i].relationships)
    /\ highlightMap' = IF tasks[i].handler = "handleEditorChange" THEN highlightMap
                       ELSE RegisterAnnotations(highlightMap, tasks[i].highlights)
    /\ tasks' = Remove(tasks, i)
    /\ UNCHANGED <<varsMain, recentlyRemovedHighlights, removalTimers, varsExtract, varsInject, varsLayout, varsStore,
                   page, viewMode, editorDoc, editorKey, pendingRemoval,
                   pendingHighlightRemoval, pendingResets, saveTimers, now, uuids,
                   events, opTrace>>

\* HighlightButtons.handleHighlight(labelId), add branch, with the run (p, i)
\* selected: a new id, the registry entry, the mark, and onSave(json) 20 ms
\* later through the handler the buttons were rendered with
EditorAddHighlight(p, i, labelId) ==
    /\ viewMode = "text" /\ ~pendingRemoval
    /\ events < MaxEvents /\ uuids < MaxUuids
    /\ p \in 1..Len(editorDoc) /\ i \in 1..Len(editorDoc[p])
    /\ HighlightsOfType(editorDoc[p][i].marks, highlightMap, labelId) = << >>
    /\ highlightMap' = setHighlight(highlightMap, Uuid(uuids + 1), labelId)
    /\ editorDoc' = AddEntityReference(editorDoc, p, i, Uuid(uuids + 1), labelId)
    /\ saveTimers' = Append(saveTimers, [skipExtraction |-> FALSE, closure |-> page,
                                         eventNo |-> events + 1])
    /\ uuids' = uuids + 1
    /\ events' = events + 1
    /\ UNCHANGED <<varsMain, recentlyRemovedHighlights, removalTimers, varsExtract, varsInject, varsLayout, varsStore, db,
                   page, viewMode, editorKey, pendingRemoval, pendingHighlightRemoval,
                   pendingResets, tasks, now, opTrace>>

\* handleHighlight(labelId), removal branch, with the cursor in the run (p, i):
\* the removal loop, markHighlightAsRemoved for each removed id, and
\* onSave(json, {skipExtraction: true}) 50 ms later
EditorRemoveHighlight(p, i, labelId) ==
    /\ viewMode = "text" /\ ~pendingRemoval
    /\ events < MaxEvents
    /\ p \in 1..Len(editorDoc) /\ i \in 1..Len(editorDoc[p])
    /\ HighlightsOfType(editorDoc[p][i].marks, highlightMap, labelId) # << >>
    /\ LET out == RemoveHighlights(
                      HighlightsOfType(editorDoc[p][i].marks, highlightMap, labelId),
                      editorDoc[p][i].marks, editorDoc[p], labelId,
                      [nodes |-> editorDoc[p], map |-> highlightMap, uuids |-> uuids,
                       removedIds |-> << >>])
       IN /\ out.uuids <= MaxUuids
          /\ \A k \in 1..Len(out.removedIds) :
                TimerCount(removalTimers, out.removedIds[k]) < MaxTimers
          /\ editorDoc' = [editorDoc EXCEPT ![p] = JoinEqualMarks(out.nodes)]
          /\ highlightMap' = out.map
          /\ uuids' = out.uuids
          /\ recentlyRemovedHighlights' =
                 MarkAllAsRemoved(recentlyRemovedHighlights, out.removedIds)
          /\ removalTimers' = ScheduleAllRemovalTimers(removalTimers, out.removedIds)
    /\ pendingRemoval' = TRUE
    /\ saveTimers' = Append(saveTimers, [skipExtraction |-> TRUE, closure |-> page,
                                         eventNo |-> events + 1])
    /\ events' = events + 1
    /\ UNCHANGED <<varsMain, varsExtract, varsInject, varsLayout, varsStore, db, page, viewMode, editorKey,
                   pendingHighlightRemoval, pendingResets, tasks, now, opTrace>>

\* the oldest setTimeout of the buttons fires: the editor's document goes to
\* handleEditorChange, which runs up to its updateAnalysedContent; a flagged
\* event also raises pendingHighlightRemoval for 500 ms
SaveTimerFires ==
    /\ saveTimers # << >>
    /\ LET timer == Head(saveTimers)
           out == handleEditorChange(timer.closure.session,
                                     timer.closure.pendingHighlightRemoval, editorDoc,
                                     timer.skipExtraction, recentlyRemovedHighlights,
                                     highlightMap, timer.eventNo)
       IN /\ tasks' = tasks \o out.tasks
          /\ highlightMap' = out.map
          /\ IF timer.skipExtraction
             THEN /\ pendingHighlightRemoval' = TRUE
                  /\ pendingResets' = pendingResets + 1
                  /\ pendingRemoval' = FALSE
             ELSE UNCHANGED <<pendingHighlightRemoval, pendingResets, pendingRemoval>>
    /\ saveTimers' = Tail(saveTimers)
    /\ UNCHANGED <<varsMain, recentlyRemovedHighlights, removalTimers, varsExtract, varsInject, varsLayout, varsStore, db,
                   page, viewMode, editorDoc, editorKey, now, uuids, events, opTrace>>

\* typing in the run (p, i): the editor reports the new document to
\* handleEditorChange, unflagged
EditorInput(p, i, text) ==
    /\ viewMode = "text"
    /\ events < MaxEvents /\ TaskLoad < MaxTasks
    /\ p \in 1..Len(editorDoc) /\ i \in 1..Len(editorDoc[p])
    /\ text # editorDoc[p][i].text
    /\ LET json == [editorDoc EXCEPT ![p][i].text = text]
           out == handleEditorChange(page.session, page.pendingHighlightRemoval, json,
                                     FALSE, recentlyRemovedHighlights, highlightMap,
                                     events + 1)
       IN /\ editorDoc' = json
          /\ tasks' = tasks \o out.tasks
          /\ highlightMap' = out.map
    /\ events' = events + 1
    /\ UNCHANGED <<varsMain, recentlyRemovedHighlights, removalTimers, varsExtract, varsInject, varsLayout, varsStore, db,
                   page, viewMode, editorKey, pendingRemoval, pendingHighlightRemoval,
                   pendingResets, saveTimers, now, uuids, opTrace>>

\* the 500 ms reset of pendingHighlightRemoval
PendingResetFires ==
    /\ pendingResets > 0
    /\ pendingResets' = pendingResets - 1
    /\ pendingHighlightRemoval' = FALSE
    /\ UNCHANGED <<varsMain, varsGlobal, varsExtract, varsInject, varsLayout, varsStore, db, page, viewMode, editorDoc,
                   editorKey, pendingRemoval, saveTimers, tasks, now, uuids, events,
                   opTrace>>

\* the user works in the graph view and the claims view
Next ==
    \/ Render
    \/ \E view \in {"graph", "claims"} : SwitchView(view)
    \/ \E source, target \in HighlightIds(Props.highlights) : GraphConnect(source, target)
    \/ \E id \in HighlightIds(Props.highlights), type \in LabelTypes : ClaimsDelete(id, type)
    \/ \E id \in HighlightIds(Props.highlights), text \in NewTexts :
          ClaimsAddEvidence(id, text)
    \/ \E text \in NewTexts : ClaimsAddClaim(text)
    \/ \E i \in 1..Len(tasks), time \in 0..MaxNow : ClaimsRead(i, time)
    \/ \E i \in 1..Len(tasks) : ClaimsWrite(i)
    \/ \E i \in 1..Len(tasks) : HandlerWrite(i)

Spec == Init /\ [][Next]_vars

\* the user works in the text view, or looks at the graph and comes back
NextEditor ==
    \/ Render
    \/ \E view \in {"text", "graph"} : SwitchView(view)
    \/ \E p \in 1..Len(editorDoc) :
          \E i \in 1..Len(editorDoc[p]), labelId \in LabelTypes :
             EditorAddHighlight(p, i, labelId)
    \/ \E p \in 1..Len(editorDoc) :
          \E i \in 1..Len(editorDoc[p]), labelId \in LabelTypes :
             EditorRemoveHighlight(p, i, labelId)
    \/ SaveTimerFires
    \/ \E p \in 1..Len(editorDoc) :
          \E i \in 1..Len(editorDoc[p]), text \in TypedTexts : EditorInput(p, i, text)
    \/ PendingResetFires
    \/ \E id \in DOMAIN removalTimers : RemovalTimerFires(id)
    \/ \E i \in 1..Len(tasks) : HandlerWrite(i)

SpecEditor == InitEditor /\ [][NextEditor]_vars

----------------------------------------------------------------------------
(* The claims about the page                                               *)

References(relationships, id) ==
    \E k \in 1..Len(relationships) :
        relationships[k].sourceHighlightId = id \/ relationships[k].targetHighlightId = id

\* C1 as stated: the relationship list handleDelete(x, type) produces, from
\* any list reached through graph connects and evidence adds, has no entry
\* whose source or target is x.
C1_DeletePrunesEveryReference ==
    \A i \in 1..Len(tasks) :
        (tasks[i].handler = "handleDelete" /\ tasks[i].pc = "write")
        => ~References(tasks[i].relationships, tasks[i].id)

\* C1 witness: a delete whose list had a relationship to prune and pruned it
C1_Witness ==
    \E i \in 1..Len(tasks) :
        /\ tasks[i].handler = "handleDelete" /\ tasks[i].pc = "write"
        /\ References(getEffectiveContent(tasks[i].closure).relationships, tasks[i].id)
        /\ ~References(tasks[i].relationships, tasks[i].id)

\* C2 as stated: once a claims-view add-evidence, add-claim or delete and the
\* handlers it triggered have all settled (the operation started with
\* nothing else in flight and nothing was started after it), the persisted
\* state holds exactly the annotation list and the relationship list the
\* operation computed.
C2_SettledStateIsComputedState ==
    (opTrace.computed /\ opTrace.clean /\ opTrace.eventNo = events
     /\ tasks = << >> /\ saveTimers = << >>)
    => /\ db.analysedContent.highlights = opTrace.highlights
       /\ db.analysedContent.relationships = opTrace.relationships

\* C2 witness: a settled add-claim, whose single handler writes the same
\* lists again
C2_Witness ==
    /\ opTrace.computed /\ opTrace.clean /\ opTrace.eventNo = events
    /\ tasks = << >>
    /\ opTrace.handler = "handleAddClaim"
    /\ db.analysedContent.highlights = opTrace.highlights
    /\ db.analysedContent.relationships = opTrace.relationships

\* C3 as stated: the write of an editor-change event flagged skipExtraction
\* changes the document only: the stored annotation list and relationship
\* list are the same after the write as before it.
C3_FlaggedEventKeepsLists ==
    [][\A i \in 1..Len(tasks) :
          (tasks[i].handler = "handleEditorChange" /\ tasks[i].skipExtraction
           /\ HandlerWrite(i))
          => /\ db'.analysedContent.highlights = db.analysedContent.highlights
             /\ db'.analysedContent.relationships = db.analysedContent.relationships]_vars

\* C4 as stated: the write of an unflagged editor-change event in analysis
\* mode stores the list extracted from the event's document (the same ids,
\* types and texts in the same order) and leaves the relationship list as
\* it was.
C4_UnflaggedEventWritesExtracted ==
    [][\A i \in 1..Len(tasks) :
          (tasks[i].handler = "handleEditorChange" /\ ~tasks[i].skipExtraction
           /\ HandlerWrite(i))
          => /\ Summary(db'.analysedContent.highlights) = Summary(tasks[i].extracted)
             /\ db'.analysedContent.relationships = db.analysedContent.relationships]_vars

----------------------------------------------------------------------------
(* SpecAnalysis: MainPage in input mode. The user types, asks for the      *)
(* analysis, and goes back to the input; the model service answers as it   *)
(* pleases.                                                                *)

MaxOperations == 3       \* user operations on the page

\* handleAnalyse: const maxAttempts = 3
AnalyseMaxAttempts == 3

\* what the user types
InputDocs == { <<<<TextNode(<<"a", "b">>, << >>)>>>>,
               <<<<TextNode(<<"b">>, << >>)>>, <<TextNode(<<"a">>, << >>)>>>> }

\* the answers of the model, well formed and not
ModelResults ==
    { ModelResult(TRUE,
                  Field(TRUE, TRUE, <<RawHighlight("e1", "evidence", <<"b">>),
                                      RawHighlight("c1", "claim", <<"a">>)>>),
                  Field(TRUE, TRUE, <<Relationship("e1", "c1")>>)),
      ModelResult(TRUE, Field(TRUE, TRUE, << >>), NoField),
      ModelResult(TRUE, NoField, Field(TRUE, TRUE, << >>)),
      ModelResult(TRUE, Field(TRUE, FALSE, << >>), NoField),
      ModelResult(TRUE, Field(TRUE, TRUE, <<RawHighlight("c1", "claim", << >>)>>), NoField),
      ModelResult(TRUE, Field(TRUE, TRUE, <<RawHighlight("c1", "claim", <<"a">>)>>),
                  Field(TRUE, FALSE, << >>)),
      ModelResult(TRUE, Field(TRUE, TRUE, <<RawHighlight("c1", "claim", <<"a">>)>>),
                  FalsyField),
      NoResult }

FetchErrors == {NetworkError, TimeoutError, ApiError, JsonError}

varsEditorPage == <<viewMode, editorDoc, editorKey, pendingRemoval,
                    pendingHighlightRemoval, pendingResets, saveTimers, tasks, now,
                    uuids, events, opTrace>>

\* MainPage over the session ensureMainSession created
InitAnalysis ==
    /\ db = createSession(EMPTY_DOCUMENT)
    /\ page = [session |-> db, pendingHighlightRemoval |-> FALSE]
    /\ viewMode = "text"
    /\ editorDoc = << >>
    /\ editorKey = 0
    /\ pendingRemoval = FALSE
    /\ pendingHighlightRemoval = FALSE
    /\ pendingResets = 0
    /\ saveTimers = << >>
    /\ tasks = << >>
    /\ now = 0
    /\ uuids = 0
    /\ events = 0
    /\ opTrace = NoOperation
    /\ recentlyRemovedHighlights = {}
    /\ removalTimers = NoTimers
    /\ highlightMap = EmptyMap
    /\ IdleExtract
    /\ IdleInject
    /\ IdleLayout
    /\ IdleStore
    /\ IdleMain

\* the session live query delivers the row and the page renders
RenderMain ==
    /\ page.session # db
    /\ page' = [page EXCEPT !.session = db]
    /\ UNCHANGED <<varsGlobal, varsExtract, varsInject, varsLayout, varsStore, varsEditorPage, varsMain, db>>

\* the input editor is on the page: not while "Analysing..." is shown
InputEditorShown == mode = "input" /\ ~isTransitioning /\ page.session.exists

\* the "Analyse Text" button is shown and enabled
AnalysisButtonShown ==
    /\ InputEditorShown
    /\ ~isAnalysing
    /\ ~page.session.hasAnalysedContent \/ page.session.analysedContent.highlights = << >>

\* handleContentChange(json)
HandleContentChange(json) ==
    /\ InputEditorShown
    /\ operations < MaxOperations
    /\ operations' = operations + 1
    /\ db' = updateInputContent(db, json)
    /\ UNCHANGED <<varsGlobal, varsExtract, varsInject, varsLayout, varsStore, varsEditorPage, page, mode,
                   isAnalysing, isTransitioning, error, analysing>>

\* handleAnalyse up to its first call of performAnalysis
HandleAnalyse ==
    /\ AnalysisButtonShown
    /\ analysing.pc = "idle"
    /\ operations < MaxOperations
    /\ operations' = operations + 1
    /\ isAnalysing' = TRUE
    /\ isTransitioning' = TRUE
    /\ error' = ""
    /\ analysing' = [NotAnalysing EXCEPT !.pc = "performAnalysis", !.session = page.session]
    /\ UNCHANGED <<varsGlobal, varsExtract, varsInject, varsLayout, varsStore, varsEditorPage, db, page, mode>>

\* performAnalysis up to the request: saveChanges() stores the input
\* document of the handler's snapshot
PerformAnalysis ==
    /\ analysing.pc = "performAnalysis"
    /\ db' = updateInputContent(db, analysing.session.inputContent)
    /\ analysing' = [analysing EXCEPT !.pc = "executeRequest", !.attempt = 0,
                                      !.caught = "",
                                      !.received = FALSE, !.response = NoResult,
                                      !.before = db]
    /\ UNCHANGED <<varsGlobal, varsExtract, varsInject, varsLayout, varsStore, varsEditorPage, page, mode,
                   isAnalysing, isTransitioning, error, operations>>

\* executeRequest when fetch, the status check or the parsing of the body
\* throws: a network error is tried again after the backoff, any other
\* error, and the last network error, is thrown on to performAnalysis,
\* whose catch resolves it to a failure
RequestFails(message) ==
    /\ analysing.pc = "executeRequest"
    /\ analysing' =
          IF IsRetried(message, analysing.attempt)
          THEN [analysing EXCEPT !.attempt = @ + 1, !.requests = @ + 1,
                                 !.caught = message,
                                 !.delay = RetryDelay(analysing.attempt + 1)]
          ELSE [analysing EXCEPT !.pc = "settled", !.requests = @ + 1,
                                 !.caught = message,
                                 !.result = AnalysisFailed(message)]
    /\ UNCHANGED <<varsGlobal, varsExtract, varsInject, varsLayout, varsStore, varsEditorPage, db, page, mode,
                   isAnalysing, isTransitioning, error, operations>>

\* executeRequest when the body parses: the validation, then performAnalysis
\* up to saveAnalysis or to its catch
RequestAnswered(result) ==
    /\ analysing.pc = "executeRequest"
    /\ LET analysis == AnalysisToSave(ValidateResponse(result))
       IN analysing' =
             IF analysis.ok
             THEN [analysing EXCEPT !.pc = "saveAnalysis", !.requests = @ + 1,
                                    !.received = TRUE, !.response = result,
                                    !.analysis = analysis]
             ELSE [analysing EXCEPT !.pc = "settled", !.requests = @ + 1,
                                    !.caught = analysis.error,
                                    !.received = TRUE, !.response = result,
                                    !.result = AnalysisFailed(analysis.error)]
    /\ UNCHANGED <<varsGlobal, varsExtract, varsInject, varsLayout, varsStore, varsEditorPage, db, page, mode,
                   isAnalysing, isTransitioning, error, operations>>

\* performAnalysis from saveAnalysis to "return { success: true }"
SaveAnalysisResults ==
    /\ analysing.pc = "saveAnalysis"
    /\ db' = saveAnalysis(db, analysing.session.inputContent, analysing.analysis.highlights,
                          analysing.analysis.relationships)
    /\ highlightMap' = RegisterAnnotations(highlightMap, analysing.analysis.highlights)
    /\ analysing' = [analysing EXCEPT !.pc = "settled", !.result = AnalysisResult(TRUE, "")]
    /\ UNCHANGED <<recentlyRemovedHighlights, removalTimers, varsExtract, varsInject, varsLayout, varsStore,
                   varsEditorPage, page, mode, isAnalysing, isTransitioning, error,
                   operations>>

\* handleAnalyse after performAnalysis resolved: success ends the loop and
\* shows the analysis; a failure is tried again (after 1000 ms) until
\* maxAttempts, then reported
HandleAnalyseSettled ==
    /\ analysing.pc = "settled"
    /\ IF analysing.result.success
       THEN /\ mode' = "analysis"
            /\ isAnalysing' = FALSE
            /\ analysing' = [analysing EXCEPT !.pc = "idle"]
            /\ error' = error
       ELSE IF analysing.analysisAttempts + 1 < AnalyseMaxAttempts
       THEN /\ analysing' = [analysing EXCEPT !.pc = "performAnalysis",
                                              !.analysisAttempts = @ + 1,
                                              !.lastError = analysing.result.error]
            /\ UNCHANGED <<mode, isAnalysing, error>>
       ELSE /\ analysing' = [analysing EXCEPT !.pc = "idle", !.analysisAttempts = @ + 1,
                                              !.lastError = analysing.result.error]
            /\ error' = analysing.result.error
            /\ isAnalysing' = FALSE
            /\ mode' = mode
    /\ UNCHANGED <<varsGlobal, varsExtract, varsInject, varsLayout, varsStore, varsEditorPage, db, page,
                   isTransitioning, operations>>

\* the 300 ms timer of handleAnalyse's finally
TransitionEnds ==
    /\ isTransitioning
    /\ ~isAnalysing
    /\ isTransitioning' = FALSE
    /\ UNCHANGED <<varsGlobal, varsExtract, varsInject, varsLayout, varsStore, varsEditorPage, db, page, mode,
                   isAnalysing, error, analysing, operations>>

\* handleBackToInput
HandleBackToInput ==
    /\ mode = "analysis"
    /\ ~isTransitioning
    /\ operations < MaxOperations
    /\ operations' = operations + 1
    /\ db' = updateAnalysedContent(updateInputContent(db, EMPTY_DOCUMENT),
                                   EMPTY_DOCUMENT, << >>, << >>)
    /\ mode' = "input"
    /\ UNCHANGED <<varsGlobal, varsExtract, varsInject, varsLayout, varsStore, varsEditorPage, page,
                   isAnalysing, isTransitioning, error, analysing>>

NextAnalysis ==
    \/ RenderMain
    \/ \E json \in InputDocs : HandleContentChange(json)
    \/ HandleAnalyse
    \/ PerformAnalysis
    \/ \E message \in FetchErrors : RequestFails(message)
    \/ \E result \in ModelResults : RequestAnswered(result)
    \/ SaveAnalysisResults
    \/ HandleAnalyseSettled
    \/ TransitionEnds
    \/ HandleBackToInput

SpecAnalysis == InitAnalysis /\ [][NextAnalysis]_vars

----------------------------------------------------------------------------
(* The claims about the validation of the answer                           *)

\* the validation contract: an object with an array of highlights, each
\* with an id, a type and a text, and relationships that are an array when
\* there are any
WellFormed(result) ==
    /\ result.isObject
    /\ result.highlights.truthy /\ result.highlights.isArray
    /\ \A k \in 1..Len(result.highlights.items) :
          /\ result.highlights.items[k].id # ""
          /\ result.highlights.items[k].labelType # ""
          /\ result.highlights.items[k].text # << >>
    /\ result.relationships.truthy => result.relationships.isArray

----------------------------------------------------------------------------
(* SpecGraph: the graph view over an analysed session whose nodes have all *)
(* been laid out and their positions stored, so that the layout effect of  *)
(* ArgumentGraph has nothing to write                                      *)

\* where the layout put node number index, where a node is dropped, and
\* where the form puts a new node
LayoutPosition(index) == <<index, 0>>

DropPositions == { <<5, 5>> }

NewNodePosition == <<100, 100>>

\* the sessions the graph is opened on: one whose annotations are apart,
\* one where the text of an annotation lies within the text of another
GraphSessions ==
    { [input |-> InitialInput,
       highlights |-> <<Highlight("c1", "claim", <<"a">>, -1, -1, NoPosition, FALSE),
                        Highlight("e1", "evidence", <<"b">>, -1, -1, NoPosition, FALSE)>>,
       relationships |-> <<Relationship("e1", "c1")>>],
      [input |-> <<<<TextNode(<<"a", "b">>, << >>)>>>>,
       highlights |-> <<Highlight("c1", "claim", <<"a", "b">>, -1, -1, NoPosition, FALSE),
                        Highlight("e1", "evidence", <<"b">>, -1, -1, NoPosition, FALSE)>>,
       relationships |-> << >>] }

\* handleGraphHighlightsChange: the document of the snapshot re-marked with
\* the new list, the snapshot's relationships
handleGraphHighlightsChange(session, updatedHighlights, eventNo) ==
    IF ~session.hasAnalysedContent THEN << >>
    ELSE <<PendingWrite("handleGraphHighlightsChange",
                        createDocumentWithMarks(session.analysedContent.content,
                                                updatedHighlights),
                        updatedHighlights, session.analysedContent.relationships,
                        FALSE, << >>, eventNo)>>

\* the layout effect on the first visit of the graph: every node without a
\* position gets one, and the list goes through handleGraphHighlightsChange
LaidOut(session) ==
    LET highlights == session.analysedContent.highlights
        positioned == [k \in 1..Len(highlights) |->
                          [highlights[k] EXCEPT !.position = LayoutPosition(k)]]
    IN updateAnalysedContent(session,
                             createDocumentWithMarks(session.analysedContent.content,
                                                     positioned),
                             positioned, session.analysedContent.relationships)

InitGraph ==
    /\ \E s \in GraphSessions :
          /\ db = LaidOut(saveAnalysis(createSession(s.input), s.input, s.highlights,
                                       s.relationships))
          /\ highlightMap = RegisterAnnotations(EmptyMap, s.highlights)
    /\ page = [session |-> db, pendingHighlightRemoval |-> FALSE]
    /\ viewMode = "graph"
    /\ editorDoc = EditorState(db.analysedContent.content)
    /\ editorKey = Len(db.analysedContent.highlights)
    /\ pendingRemoval = FALSE
    /\ pendingHighlightRemoval = FALSE
    /\ pendingResets = 0
    /\ saveTimers = << >>
    /\ tasks = << >>
    /\ now = 0
    /\ uuids = 0
    /\ events = 0
    /\ opTrace = NoOperation
    /\ recentlyRemovedHighlights = {}
    /\ removalTimers = NoTimers
    /\ IdleExtract
    /\ IdleInject
    /\ IdleLayout
    /\ IdleStore
    /\ IdleMain

\* a graph handler has called onHighlightsChange(updatedHighlights): the
\* page's handler runs up to its await
GraphHighlightsChange(handler, id, updatedHighlights) ==
    /\ viewMode = "graph"
    /\ events < MaxEvents /\ TaskLoad < MaxTasks
    /\ tasks' = tasks \o handleGraphHighlightsChange(page.session, updatedHighlights,
                                                      events + 1)
    /\ events' = events + 1
    /\ opTrace' = [handler |-> handler, id |-> id, highlights |-> updatedHighlights,
                   relationships |-> Props.relationships, eventNo |-> events + 1,
                   clean |-> (tasks = << >> /\ page.session = db), computed |-> TRUE]

\* ArgumentGraph.handleAddNode with the form filled in
GraphAddNode(text, labelType, time) ==
    /\ time >= now /\ time <= MaxNow
    /\ now' = time
    /\ GraphHighlightsChange("handleAddNode", TimestampId("node", time),
                             Append(Props.highlights,
                                    Highlight(TimestampId("node", time), labelType, text,
                                              -1, -1, NewNodePosition, TRUE)))
    /\ UNCHANGED <<varsMain, varsGlobal, varsExtract, varsInject, varsLayout, varsStore, db, page, viewMode,
                   editorDoc, editorKey, pendingRemoval, pendingHighlightRemoval,
                   pendingResets, saveTimers, uuids>>

\* ArgumentGraph.handleNodeDragStop(event, node)
GraphNodeDragStop(id, position) ==
    /\ id \in HighlightIds(Props.highlights)
    /\ LET index == FindIndex(Props.highlights, LAMBDA h : h.id = id)
       IN GraphHighlightsChange("handleNodeDragStop", id,
                                [Props.highlights EXCEPT ![index].position = position])
    /\ UNCHANGED <<varsMain, varsGlobal, varsExtract, varsInject, varsLayout, varsStore, db, page, viewMode,
                   editorDoc, editorKey, pendingRemoval, pendingHighlightRemoval,
                   pendingResets, saveTimers, now, uuids>>

NextGraph ==
    \/ Render
    \/ \E source, target \in HighlightIds(Props.highlights) : GraphConnect(source, target)
    \/ \E text \in NewTexts, labelType \in LabelTypes, time \in 0..MaxNow :
          GraphAddNode(text, labelType, time)
    \/ \E id \in HighlightIds(Props.highlights), position \in DropPositions :
          GraphNodeDragStop(id, position)
    \/ \E i \in 1..Len(tasks) : HandlerWrite(i)

SpecGraph == InitGraph /\ [][NextGraph]_vars

----------------------------------------------------------------------------
(* SpecSession: the operations of SessionManager on the session row, called *)
(* in any order by any caller                                               *)

SessionHighlights ==
    { << >>,
      <<Highlight("c1", "claim", <<"a">>, -1, -1, NoPosition, FALSE)>>,
      <<Highlight("e1", "evidence", <<"b">>, -1, -1, NoPosition, FALSE),
        Highlight("c1", "claim", <<"a">>, -1, -1, NoPosition, FALSE)>> }

SessionRelationships == { << >>, <<Relationship("e1", "c1")>> }

SessionDocs == InputDocs \cup {EMPTY_DOCUMENT}

\* SessionManager.startAnalysis: throws without a session or an input
\* document, else sets the status and nothing else
startAnalysis(session) ==
    IF ~session.exists THEN session ELSE [session EXCEPT !.status = "analysis"]

startAnalysisThrows(session) == IF ~session.exists THEN SessionNotFound ELSE ""

\* SessionManager.deleteSession
deleteSession(session) == NoSession

InitSession ==
    /\ InitAnalysis

CreateSession(initialContent) ==
    /\ ~db.exists
    /\ db' = createSession(initialContent)
    /\ thrown' = ""
    /\ UNCHANGED <<varsGlobal, varsExtract, varsInject, varsLayout, sessions, keyGenerator,
                   migration, varsEditorPage, varsMain, page>>

UpdateInputContent(content) ==
    /\ db' = updateInputContent(db, content)
    /\ thrown' = ""
    /\ UNCHANGED <<varsGlobal, varsExtract, varsInject, varsLayout, sessions, keyGenerator,
                   migration, varsEditorPage, varsMain, page>>

StartAnalysis ==
    /\ db' = startAnalysis(db)
    /\ thrown' = startAnalysisThrows(db)
    /\ UNCHANGED <<varsGlobal, varsExtract, varsInject, varsLayout, sessions, keyGenerator,
                   migration, varsEditorPage, varsMain, page>>

SaveAnalysis(content, highlights, relationships) ==
    /\ db' = saveAnalysis(db, content, highlights, relationships)
    /\ thrown' = saveAnalysisThrows(db)
    /\ highlightMap' = IF db.exists THEN RegisterAnnotations(highlightMap, highlights)
                       ELSE highlightMap
    /\ UNCHANGED <<recentlyRemovedHighlights, removalTimers, varsExtract, varsInject, varsLayout,
                   sessions, keyGenerator, migration, varsEditorPage, varsMain, page>>

UpdateAnalysedContent(content, highlights, relationships) ==
    /\ db' = updateAnalysedContent(db, content, highlights, relationships)
    /\ thrown' = updateAnalysedContentThrows(db)
    /\ UNCHANGED <<varsGlobal, varsExtract, varsInject, varsLayout, sessions, keyGenerator,
                   migration, varsEditorPage, varsMain, page>>

\* SessionManager.getEffectiveContent: a read, answered or thrown
GetEffectiveContent ==
    /\ thrown' = getEffectiveContentThrows(db)
    /\ UNCHANGED <<varsGlobal, varsExtract, varsInject, varsLayout, sessions, keyGenerator,
                   migration, varsEditorPage, varsMain, page, db>>

DeleteSession ==
    /\ db' = deleteSession(db)
    /\ thrown' = ""
    /\ UNCHANGED <<varsGlobal, varsExtract, varsInject, varsLayout, sessions, keyGenerator,
                   migration, varsEditorPage, varsMain, page>>

NextSession ==
    \/ \E content \in SessionDocs : CreateSession(content)
    \/ \E content \in SessionDocs : UpdateInputContent(content)
    \/ StartAnalysis
    \/ \E content \in InputDocs, highlights \in SessionHighlights,
          relationships \in SessionRelationships :
          SaveAnalysis(content, highlights, relationships)
    \/ \E content \in SessionDocs, highlights \in SessionHighlights,
          relationships \in SessionRelationships :
          UpdateAnalysedContent(content, highlights, relationships)
    \/ GetEffectiveContent
    \/ DeleteSession

SpecSession == InitSession /\ [][NextSession]_vars

----------------------------------------------------------------------------
(* The claims about the analysis pipeline and the session's status         *)

\* an API error response has come back in the running analysis
ApiErrorReceived ==
    \/ analysing.pc = "settled" /\ analysing.result.error = ApiError
    \/ analysing.lastError = ApiError

\* C11: one call of analyse makes at most 3 requests; a request is followed
\* by another one of the same call only when it failed with a network error
\* (never after an API error, a body that does not parse or an answer that
\* fails validation), and the wait before retry number n is n x 1000 ms
C11_RetriesOnlyNetworkFailures ==
    [][(analysing.pc = "executeRequest" /\ analysing' # analysing)
       => /\ analysing.attempt + 1 <= 3
          /\ analysing'.pc = "executeRequest"
             => /\ analysing'.caught = NetworkError
                /\ analysing'.attempt = analysing.attempt + 1
                /\ analysing'.delay = analysing'.attempt * 1000]_vars

\* C11 witness: a call whose first two requests failed at the network and
\* that waited 2000 ms before its third
C11_Witness ==
    /\ analysing.pc = "executeRequest"
    /\ analysing.attempt = 2
    /\ analysing.delay = 2000

\* C12 as stated: a request aborted by the 30 s timeout, when fewer than 3
\* attempts have been made, is followed by another attempt of the same call
C12_TimeoutIsRetried ==
    [][(RequestFails(TimeoutError) /\ analysing.attempt + 1 < 3)
       => /\ analysing'.pc = "executeRequest"
          /\ analysing'.attempt = analysing.attempt + 1]_vars

\* C12 witness: the first request of a call was aborted by the timeout and
\* the call has ended with that error
C12_Witness ==
    /\ analysing.pc = "settled"
    /\ analysing.attempt = 0
    /\ analysing.result.error = TimeoutError

\* C13 as stated: once an API error response has come back in an analysis
\* the user started, no further request is made in that analysis, and when
\* handleAnalyse takes the failed attempt up it reports the error
C13_ApiErrorNotRetried ==
    [][ApiErrorReceived
       => /\ analysing'.requests <= analysing.requests
          /\ HandleAnalyseSettled => error' = ApiError]_vars

\* C13 witness: an analysis that has ended, reporting the API error, after
\* three requests that were each answered with it
C13_Witness ==
    /\ analysing.pc = "idle"
    /\ analysing.lastError = ApiError
    /\ analysing.requests = 3
    /\ analysing.analysisAttempts = 3
    /\ error = ApiError
    /\ ~isAnalysing

\* C14 as stated: the status of a session becomes "analysis" only in a
\* write of saveAnalysis, which stores the analysed document, annotations
\* and relationships with it; no other operation of SessionManager does it
C14_AnalysisOnlyBySaveAnalysis ==
    [][(db.status # "analysis" /\ db'.status = "analysis")
       => \E content \in InputDocs, highlights \in SessionHighlights,
             relationships \in SessionRelationships :
             db' = saveAnalysis(db, content, highlights, relationships)]_vars

\* C14 witness: a session in analysis status that has no analysed content
C14_Witness == db.exists /\ db.status = "analysis" /\ ~db.hasAnalysedContent

\* C15 as stated: when the back-to-input reset has completed the session is
\* no longer in analysis status and holds an empty document, no annotations
\* and no relationships
C15_BackToInputResetsSession ==
    [][HandleBackToInput
       => /\ db'.status # "analysis"
          /\ db'.inputContent = EMPTY_DOCUMENT
          /\ db'.analysedContent = AnalysedContent(EMPTY_DOCUMENT, << >>, << >>)]_vars

\* C15 witness: after an analysis that succeeded, the page is back in input
\* mode over a session emptied by the reset
C15_Witness ==
    /\ mode = "input"
    /\ analysing.pc = "idle"
    /\ analysing.result.success
    /\ db.hasAnalysedContent
    /\ db.inputContent = EMPTY_DOCUMENT
    /\ db.analysedContent = AnalysedContent(EMPTY_DOCUMENT, << >>, << >>)

----------------------------------------------------------------------------
(* The claims about the graph view                                         *)

\* the write of the page handler that the last graph operation, if it was
\* the given one, ended in
GraphWrite(i, handler) ==
    /\ HandlerWrite(i)
    /\ tasks[i].handler = "handleGraphHighlightsChange"
    /\ opTrace.handler = handler
    /\ tasks[i].eventNo = opTrace.eventNo

NoDuplicates(relationships) ==
    \A i, j \in 1..Len(relationships) : relationships[i] = relationships[j] => i = j

\* C16 as stated: the write that follows the creation of a node in the graph
\* view stores a list with the new annotation and a document with a run
\* that is marked with the new id and has the node's text
C16_NewNodeIsMarkedInDocument ==
    [][\A i \in 1..Len(tasks) :
          GraphWrite(i, "handleAddNode")
          => /\ opTrace.id \in HighlightIds(db'.analysedContent.highlights)
             /\ \E k \in 1..Len(RunsMarked(db'.analysedContent.content, opTrace.id)) :
                   RunsMarked(db'.analysedContent.content, opTrace.id)[k].text
                      = tasks[i].highlights[Len(tasks[i].highlights)].text]_vars

\* C16 witness: a node whose text stands in the document has been created
\* and the document stored carries a run marked with its id
C16_Witness ==
    /\ opTrace.handler = "handleAddNode"
    /\ tasks = << >>
    /\ opTrace.id \in HighlightIds(db.analysedContent.highlights)
    /\ RunsMarked(db.analysedContent.content, opTrace.id) # << >>

\* C17 as stated: the write that follows a node drag stop leaves the stored
\* document and relationship list as they were, and the id, type and text
\* of every annotation
C17_DragChangesPositionOnly ==
    [][\A i \in 1..Len(tasks) :
          GraphWrite(i, "handleNodeDragStop")
          => /\ db'.analysedContent.content = db.analysedContent.content
             /\ db'.analysedContent.relationships = db.analysedContent.relationships
             /\ Summary(db'.analysedContent.highlights)
                   = Summary(db.analysedContent.highlights)]_vars

\* C17 witness: a drag stop whose write has stored the new position and left
\* the document and the relationships as the page had them
C17_Witness ==
    /\ opTrace.handler = "handleNodeDragStop"
    /\ tasks = << >>
    /\ \E k \in 1..Len(db.analysedContent.highlights) :
          /\ db.analysedContent.highlights[k].id = opTrace.id
          /\ db.analysedContent.highlights[k].position \in DropPositions
    /\ db.analysedContent.content = page.session.analysedContent.content
    /\ db.analysedContent.relationships = page.session.analysedContent.relationships
    /\ db # page.session

\* C18: after any sequence of connect events in the graph view, on a session
\* whose relationship list had no duplicates, neither the stored list nor
\* a list on its way to the store has two entries with the same source and
\* the same target
C18_ConnectDeduplicates ==
    /\ NoDuplicates(db.analysedContent.relationships)
    /\ \A i \in 1..Len(tasks) : NoDuplicates(tasks[i].relationships)

\* C18 witness: a connect of a relationship that is already in the list has
\* been ignored (an event that left no write behind and nothing changed),
\* on a list that holds it once
C18_Witness ==
    /\ events = 1
    /\ tasks = << >>
    /\ opTrace = NoOperation
    /\ db = page.session
    /\ db.analysedContent.relationships = <<Relationship("e1", "c1")>>
    /\ \A k \in 1..Len(db.analysedContent.highlights) :
          db.analysedContent.highlights[k].position = LayoutPosition(k)

\* C19 as stated: a connect in the graph view that adds a relationship (it
\* hands a longer list to the page) has neither endpoint in the
\* recently-removed set, and both endpoints in the stored annotation list
C19_ConnectChecksEndpoints ==
    [][\A source, target \in HighlightIds(Props.highlights) :
          (GraphConnect(source, target) /\ Len(tasks') > Len(tasks))
          => /\ {source, target} \cap recentlyRemovedHighlights = {}
             /\ {source, target} \subseteq HighlightIds(getEffectiveContent(db).highlights)]_vars

\* C19 witness: a connect has added a relationship between two annotations
\* that are both stored and not recently removed, and the list is stored
C19_Witness ==
    /\ events = 1
    /\ tasks = << >>
    /\ recentlyRemovedHighlights = {}
    /\ db.analysedContent.relationships = <<Relationship("c1", "e1")>>
    /\ {"c1", "e1"} \subseteq HighlightIds(db.analysedContent.highlights)

----------------------------------------------------------------------------
(* The claims about the claims view                                        *)

\* C20 as stated: the write of a delete in the claims view stores a document
\* with the plain text of the document stored before it, in which no run
\* carries a mark with the id of the annotation deleted
C20_DeleteRemovesMarkOnly ==
    [][\A i \in 1..Len(tasks) :
          (ClaimsWrite(i) /\ tasks[i].handler = "handleDelete")
          => /\ PlainText(db'.analysedContent.content) = PlainText(db.analysedContent.content)
             /\ RunsMarked(db'.analysedContent.content, tasks[i].id) = << >>]_vars

\* C20 witness: a delete in the claims view has stored its list, which no
\* longer holds the annotation, and a document with the words it had
C20_Witness ==
    /\ opTrace.handler = "handleDelete"
    /\ opTrace.computed
    /\ \A i \in 1..Len(tasks) : tasks[i].handler \notin ClaimsHandlers
    /\ opTrace.id \notin HighlightIds(db.analysedContent.highlights)
    /\ db.analysedContent.highlights = opTrace.highlights
    /\ PlainText(db.analysedContent.content) = PlainText(InitialInput)

----------------------------------------------------------------------------
(* SpecLayout: the effect of ArgumentGraph that turns the annotations into *)
(* nodes, with every label type shown (the initial filters)                *)

\* a react-flow node, as far as the layout goes
Node(id, labelType, label, position) ==
    [id |-> id, labelType |-> labelType, label |-> label, position |-> position]

getNodeTypeWeight(labelType) ==
    CASE labelType = "claim" -> 0
      [] labelType = "counter" -> 1
      [] labelType = "question" -> 2
      [] labelType = "evidence" -> 3
      [] labelType = "assumption" -> 4
      [] labelType = "implication" -> 5
      [] labelType = "cause" -> 6
      [] OTHER -> 99

\* Array.prototype.sort by a number: stable, ascending; the elements come
\* with their keys, as [key, value]
RECURSIVE InsertByKey(_, _)
InsertByKey(sorted, x) ==
    IF sorted = << >> THEN <<x>>
    ELSE IF Head(sorted).key <= x.key
    THEN <<Head(sorted)>> \o InsertByKey(Tail(sorted), x)
    ELSE <<x>> \o sorted

RECURSIVE SortByKey(_)
SortByKey(seq) ==
    IF seq = << >> THEN << >>
    ELSE InsertByKey(SortByKey(SubSeq(seq, 1, Len(seq) - 1)), seq[Len(seq)])

Values(keyed) == [k \in 1..Len(keyed) |-> keyed[k].value]

\* Object.keys(nodesByType): the label types in the order of their first node
RECURSIVE TypesInOrder(_)
TypesInOrder(ns) ==
    IF ns = << >> THEN << >>
    ELSE LET before == TypesInOrder(SubSeq(ns, 1, Len(ns) - 1))
             type == ns[Len(ns)].labelType
         IN IF type \in Range(before) THEN before ELSE Append(before, type)

\* relationshipMap[id].length
ConnectionCount(id, relationships) ==
    Cardinality({k \in 1..Len(relationships) : relationships[k].sourceHighlightId = id})
    + Cardinality({k \in 1..Len(relationships) : relationships[k].targetHighlightId = id})

\* sortedTypes: the types by weight, types of equal weight in the order of
\* Object.keys
SortedTypes(ns) ==
    LET types == TypesInOrder(ns)
    IN Values(SortByKey([k \in 1..Len(types) |->
                            [key |-> getNodeTypeWeight(types[k]), value |-> types[k]]]))

\* nodesByType[type] after its sort: most connected first
NodesOfType(ns, relationships, type) ==
    LET nodesOf == SelectSeq(ns, LAMBDA n : n.labelType = type)
    IN Values(SortByKey([k \in 1..Len(nodesOf) |->
                            [key |-> 0 - ConnectionCount(nodesOf[k].id, relationships),
                             value |-> nodesOf[k]]]))

\* the grid after the first pass: rows 0, 1, ... of the column of each type
FirstGrid(ns, relationships) ==
    UNION { {<<c - 1, k - 1>> : k \in 1..Len(NodesOfType(ns, relationships, SortedTypes(ns)[c]))} :
              c \in 1..Len(SortedTypes(ns)) }

\* first pass: a column for each type, its nodes (most connected first) in
\* rows 0, 1, ...; the result maps each node id to <<column, row>>, the cell
\* of the node placed last when two nodes have one id
FirstPass(ns, relationships) ==
    LET CellsOf(id) ==
            {cell \in FirstGrid(ns, relationships) :
                NodesOfType(ns, relationships, SortedTypes(ns)[cell[1] + 1])[cell[2] + 1].id = id}
        Cell(id) ==
            CHOOSE cell \in CellsOf(id) :
                \A other \in CellsOf(id) :
                    other[1] < cell[1] \/ (other[1] = cell[1] /\ other[2] <= cell[2])
    IN [id \in {ns[k].id : k \in 1..Len(ns)} |-> Cell(id)]

Abs(x) == IF x < 0 THEN 0 - x ELSE x

\* an alignment that moves the pair without looking whether the row is free
AlignPairUnchecked(state, relation) ==
    LET sourceId == relation.sourceHighlightId
        targetId == relation.targetHighlightId
        nodePositions == state.nodePositions
    IN IF /\ sourceId \in DOMAIN nodePositions
          /\ targetId \in DOMAIN nodePositions
          /\ Abs(nodePositions[sourceId][1] - nodePositions[targetId][1]) = 1
          /\ sourceId \notin state.processedNodes
          /\ targetId \notin state.processedNodes
       THEN LET sourcePos == nodePositions[sourceId]
                targetPos == nodePositions[targetId]
                targetRow == Min({sourcePos[2], targetPos[2]})
            IN [grid |-> (state.grid \ {sourcePos, targetPos})
                            \cup {<<sourcePos[1], targetRow>>, <<targetPos[1], targetRow>>},
                nodePositions |->
                    [id \in DOMAIN nodePositions |->
                        IF id = sourceId THEN <<sourcePos[1], targetRow>>
                        ELSE IF id = targetId THEN <<targetPos[1], targetRow>>
                        ELSE nodePositions[id]],
                processedNodes |-> state.processedNodes \cup {sourceId, targetId}]
       ELSE state

\* second pass, one relationship: two nodes in adjacent columns, neither
\* aligned before, move to the lower of their rows when that row is free
AlignPair(state, relation) ==
    LET sourceId == relation.sourceHighlightId
        targetId == relation.targetHighlightId
        nodePositions == state.nodePositions
    IN IF /\ sourceId \in DOMAIN nodePositions
          /\ targetId \in DOMAIN nodePositions
          /\ Abs(nodePositions[sourceId][1] - nodePositions[targetId][1]) = 1
          /\ sourceId \notin state.processedNodes
          /\ targetId \notin state.processedNodes
       THEN LET sourcePos == nodePositions[sourceId]
                targetPos == nodePositions[targetId]
                targetRow == Min({sourcePos[2], targetPos[2]})
            IN IF /\ (<<sourcePos[1], targetRow>> \notin state.grid \/ sourcePos[2] = targetRow)
                  /\ (<<targetPos[1], targetRow>> \notin state.grid \/ targetPos[2] = targetRow)
               THEN [grid |-> (state.grid \ {sourcePos, targetPos})
                                 \cup {<<sourcePos[1], targetRow>>, <<targetPos[1], targetRow>>},
                     nodePositions |->
                         [id \in DOMAIN nodePositions |->
                             IF id = sourceId THEN <<sourcePos[1], targetRow>>
                             ELSE IF id = targetId THEN <<targetPos[1], targetRow>>
                             ELSE nodePositions[id]],
                     processedNodes |-> state.processedNodes \cup {sourceId, targetId}]
               ELSE state
       ELSE state

RECURSIVE AlignPairs(_, _)
AlignPairs(state, relationships) ==
    IF relationships = << >> THEN state
    ELSE AlignPairs(AlignPair(state, Head(relationships)), Tail(relationships))

\* the coordinates of a grid cell
GridPosition(cell) == <<50 + cell[1] * (350 + 80), 50 + cell[2] * 100>>

\* createRelationshipBasedLayout: every node it is given is placed on the
\* grid (the handle sides that assignSmartEdgeRoutingProperties adds are not
\* part of a Node here)
createRelationshipBasedLayout(ns, relationships) ==
    IF ns = << >> THEN << >>
    ELSE LET first == FirstPass(ns, relationships)
             aligned == AlignPairs([grid |-> FirstGrid(ns, relationships),
                                    nodePositions |-> first,
                                    processedNodes |-> {}], relationships)
         IN [k \in 1..Len(ns) |->
                [ns[k] EXCEPT !.position = GridPosition(aligned.nodePositions[ns[k].id])]]

\* nodesOverlap with padding 15: the node's size is estimated from its label
NodeWidth(node) ==
    LET textLength == IF Len(node.label) = 0 THEN 10 ELSE Len(node.label)
        wide == IF textLength * 8 < 100 THEN 100 ELSE textLength * 8
    IN IF wide > 350 THEN 350 ELSE wide

NodeHeight(node) == 40 + (Len(node.label) \div 50) * 20

nodesOverlap(node1, node2) ==
    ~ \/ node1.position[1] + NodeWidth(node1) + 15 < node2.position[1]
      \/ node1.position[1] > node2.position[1] + NodeWidth(node2) + 15
      \/ node1.position[2] + NodeHeight(node1) + 15 < node2.position[2]
      \/ node1.position[2] > node2.position[2] + NodeHeight(node2) + 15

\* applyForceDirectedLayout: nodes that overlap are pushed apart; nodes on
\* distinct cells of the grid whose labels have fewer than 150 characters do
\* not overlap (40 + 15 < 100, 350 + 15 < 430), and are returned as they are
applyForceDirectedLayout(ns) ==
    IF Len(ns) <= 1 THEN ns
    ELSE CASE \A i, j \in 1..Len(ns) : i < j => ~nodesOverlap(ns[i], ns[j]) -> ns

\* the positions saved in localStorage go to the annotations without one
ApplySavedPositions(highlights, positionsMap) ==
    [k \in 1..Len(highlights) |->
        IF highlights[k].position = NoPosition
           /\ \E e \in Range(positionsMap) : e.id = highlights[k].id
        THEN [highlights[k] EXCEPT
                 !.position = positionsMap[FindIndex(positionsMap,
                                                     LAMBDA e : e.id = highlights[k].id)].position]
        ELSE highlights[k]]

\* initialNodes: the stored position, or the default position, which the
\* layout replaces in the same pass before any node is set or stored
InitialNodes(highlights) ==
    [k \in 1..Len(highlights) |->
        Node(highlights[k].id, highlights[k].labelType, highlights[k].text,
             highlights[k].position)]

\* layoutedNodes: all nodes go through the layout when one has no position
LayoutedNodes(highlights, relationships) ==
    IF \E k \in 1..Len(highlights) : highlights[k].position = NoPosition
    THEN applyForceDirectedLayout(
             createRelationshipBasedLayout(InitialNodes(highlights), relationships))
    ELSE InitialNodes(highlights)

\* updatedHighlights: the node's position for the annotations without one
UpdatedHighlights(highlights, layoutedNodes) ==
    [k \in 1..Len(highlights) |->
        IF highlights[k].position = NoPosition
        THEN [highlights[k] EXCEPT
                 !.position = layoutedNodes[FindIndex(layoutedNodes,
                                                      LAMBDA n : n.id = highlights[k].id)].position]
        ELSE highlights[k]]

\* savePositionsToLocalStorage
SavedPositions(ns) == [k \in 1..Len(ns) |-> [id |-> ns[k].id, position |-> ns[k].position]]

\* where a node was dropped or put by an earlier layout
StoredPositions == { <<5, 5>>, <<50, 50>> }

LayoutHighlights ==
    { <<Highlight("c1", "claim", <<"a">>, -1, -1, p1, FALSE),
        Highlight("e1", "evidence", <<"b">>, -1, -1, p2, FALSE),
        Highlight("c2", "claim", <<"c">>, -1, -1, p3, FALSE)>> :
          p1 \in StoredPositions \cup {NoPosition},
          p2 \in {<<480, 150>>, NoPosition},
          p3 \in {<<5, 5>>, NoPosition} }

LayoutRelationships ==
    { << >>, <<Relationship("e1", "c1")>>, <<Relationship("e1", "c2")>>,
      <<Relationship("e1", "c2"), Relationship("e1", "c1")>> }

InitLayout ==
    /\ layHighlights \in LayoutHighlights
    /\ layRelationships \in LayoutRelationships
    /\ localStorage \in { << >>, <<[id |-> "c2", position |-> <<7, 7>>]>> }
    /\ layNodes = << >>
    /\ layEmitted = << >>
    /\ layPc = "effect"
    /\ relEmitted = << >>
    /\ recentlyRemovedHighlights = {}
    /\ removalTimers = NoTimers
    /\ highlightMap = EmptyMap
    /\ IdleExtract
    /\ IdleInject
    /\ IdlePage
    /\ IdleMain
    /\ IdleStore

\* the effect runs on the props: saved positions, nodes, layout, the update
\* handed to onHighlightsChange, setNodes, localStorage
LayoutEffect ==
    /\ layPc = "effect"
    /\ LET highlights == ApplySavedPositions(layHighlights, localStorage)
           layoutedNodes == LayoutedNodes(highlights, layRelationships)
       IN /\ layHighlights' = highlights
          /\ layEmitted' = IF \E k \in 1..Len(highlights) : highlights[k].position = NoPosition
                           THEN Append(layEmitted, UpdatedHighlights(highlights, layoutedNodes))
                           ELSE layEmitted
          /\ layNodes' = layoutedNodes
          /\ localStorage' = IF layoutedNodes = << >> THEN localStorage
                             ELSE SavedPositions(layoutedNodes)
    /\ layPc' = "rendered"
    /\ UNCHANGED <<varsMain, varsGlobal, varsExtract, varsInject, varsPage, varsStore,
                   layRelationships, relEmitted>>

\* the list handed to onHighlightsChange is stored and comes back as the
\* props, and the effect runs again
LayoutUpdateArrives ==
    /\ layPc = "rendered"
    /\ layEmitted # << >>
    /\ layHighlights # layEmitted[Len(layEmitted)]
    /\ layHighlights' = layEmitted[Len(layEmitted)]
    /\ layPc' = "effect"
    /\ UNCHANGED <<varsMain, varsGlobal, varsExtract, varsInject, varsPage, varsStore,
                   layRelationships, localStorage, layNodes, layEmitted, relEmitted>>

NextLayout ==
    \/ LayoutEffect
    \/ LayoutUpdateArrives

SpecLayout == InitLayout /\ [][NextLayout]_vars

----------------------------------------------------------------------------
(* The claim about the layout of the graph                                 *)

HasPosition(highlight) == highlight.position # NoPosition

\* the position of the node, or of the annotation, with this id
PositionOf(seq, id) == seq[FindIndex(seq, LAMBDA x : x.id = id)].position

\* C21 as stated: a layout pass leaves every position that an annotation
\* had before it as it was, in the list it hands to onHighlightsChange and
\* in the nodes it sets, also when other annotations have none; when every
\* annotation had a position it hands over no list
C21_LayoutKeepsStoredPositions ==
    [][LayoutEffect
       => /\ \A k \in 1..Len(layHighlights) :
                HasPosition(layHighlights[k])
                => /\ PositionOf(layNodes', layHighlights[k].id) = layHighlights[k].position
                   /\ layEmitted' # layEmitted
                      => PositionOf(layEmitted'[Len(layEmitted')], layHighlights[k].id)
                            = layHighlights[k].position
          /\ (\A k \in 1..Len(layHighlights) : HasPosition(layHighlights[k]))
             => layEmitted' = layEmitted]_vars

\* C21 witness: a pass over annotations that all had a position has set the
\* nodes at these positions and handed over nothing
C21_Witness ==
    /\ layPc = "rendered"
    /\ layEmitted = << >>
    /\ layNodes # << >>
    /\ \A k \in 1..Len(layHighlights) :
          /\ HasPosition(layHighlights[k])
          /\ layNodes[k].position = layHighlights[k].position

\* the half of C21 about the list: the list handed over keeps every position
\* that was there, and nothing is handed over when none is missing
LayoutKeepsStoredPositionsInList ==
    [][LayoutEffect
       => /\ \A k \in 1..Len(layHighlights) :
                (HasPosition(layHighlights[k]) /\ layEmitted' # layEmitted)
                => PositionOf(layEmitted'[Len(layEmitted')], layHighlights[k].id)
                      = layHighlights[k].position
          /\ (\A k \in 1..Len(layHighlights) : HasPosition(layHighlights[k]))
             => (layEmitted' = layEmitted /\ layNodes' = InitialNodes(layHighlights))]_vars

----------------------------------------------------------------------------
(* SpecMigration: the sessions table (Dexie, "++id": the keys come from a   *)
(* key generator that never goes back), ensureMainSession, and the calls   *)
(* that add and delete rows around it                                      *)

MAIN_SESSION_ID == 1

MaxKeys == 3             \* keys the generator hands out

\* a row of db.sessions
Row(id, title, lastModified, session) ==
    [id |-> id, title |-> title, lastModified |-> lastModified, session |-> session]

\* db.sessions.get(id)
HasSession(table, id) == id \in DOMAIN table

\* the latest lastModified in the table (the clock does not go back)
LatestModified(table) ==
    IF DOMAIN table = {} THEN 0
    ELSE CHOOSE t \in {table[id].lastModified : id \in DOMAIN table} :
             \A id \in DOMAIN table : table[id].lastModified <= t

\* db.sessions.add(session): the key generator gives the next key
AddRow(table, generator, title, time, session) ==
    [id \in DOMAIN table \cup {generator + 1} |->
        IF id = generator + 1 THEN Row(id, title, time, session) ELSE table[id]]

\* db.sessions.put(row) with an explicit key
PutRow(table, row) ==
    [id \in DOMAIN table \cup {row.id} |-> IF id = row.id THEN row ELSE table[id]]

\* db.sessions.delete(id)
DeleteRow(table, id) == [x \in DOMAIN table \ {id} |-> table[x]]

\* db.sessions.orderBy("lastModified").reverse().toArray()[0]: the latest
\* row, the one with the greater key among equals
MostRecentSession(table) ==
    CHOOSE row \in {table[id] : id \in DOMAIN table} :
        \A id \in DOMAIN table :
            \/ table[id].lastModified < row.lastModified
            \/ table[id].lastModified = row.lastModified /\ id <= row.id

\* an ensureMainSession call between two awaits, with the sessions it has
\* listed
Migration(pc, listed) == [pc |-> pc, listed |-> listed]

InitMigration ==
    /\ sessions = << >>
    /\ keyGenerator = 0
    /\ migration = Migration("idle", << >>)
    /\ thrown = ""
    /\ recentlyRemovedHighlights = {}
    /\ removalTimers = NoTimers
    /\ highlightMap = EmptyMap
    /\ IdleExtract
    /\ IdleInject
    /\ IdlePage
    /\ IdleMain
    /\ IdleLayout

\* MainPage mounts: runMigration -> ensureMainSession, up to getSession
EnsureMainSession ==
    /\ migration.pc \in {"idle", "done"}
    /\ migration' = Migration("getSession", << >>)
    /\ UNCHANGED <<varsMain, varsGlobal, varsExtract, varsInject, varsPage, varsLayout,
                   sessions, keyGenerator, thrown>>

\* getSession(MAIN_SESSION_ID) answers: done when the row is there
EnsureGetSession ==
    /\ migration.pc = "getSession"
    /\ migration' = IF HasSession(sessions, MAIN_SESSION_ID) THEN Migration("done", << >>)
                    ELSE Migration("toArray", << >>)
    /\ UNCHANGED <<varsMain, varsGlobal, varsExtract, varsInject, varsPage, varsLayout,
                   sessions, keyGenerator, thrown>>

\* the sessions are listed
EnsureToArray ==
    /\ migration.pc = "toArray"
    /\ migration' = Migration("write", sessions)
    /\ UNCHANGED <<varsMain, varsGlobal, varsExtract, varsInject, varsPage, varsLayout,
                   sessions, keyGenerator, thrown>>

\* the most recent of the sessions listed is put under the main id, or with
\* no session listed an empty one is created
EnsureWrite(time) ==
    /\ migration.pc = "write"
    /\ time \in LatestModified(sessions)..MaxNow
    /\ IF DOMAIN migration.listed # {}
       THEN /\ sessions' =
                   PutRow(sessions,
                          [MostRecentSession(migration.listed) EXCEPT
                              !.id = MAIN_SESSION_ID,
                              !.title = IF @ = "" THEN "Main Session" ELSE @])
            /\ keyGenerator' = IF keyGenerator < MAIN_SESSION_ID THEN MAIN_SESSION_ID
                               ELSE keyGenerator
       ELSE /\ keyGenerator < MaxKeys
            /\ sessions' = AddRow(sessions, keyGenerator, "Main Session", time,
                                  createSession(EMPTY_DOCUMENT))
            /\ keyGenerator' = keyGenerator + 1
    /\ migration' = Migration("done", << >>)
    /\ UNCHANGED <<varsMain, varsGlobal, varsExtract, varsInject, varsPage, varsLayout, thrown>>

\* SessionManager.createSession(title, content) from elsewhere
StoreCreateSession(title, time) ==
    /\ keyGenerator < MaxKeys
    /\ time \in LatestModified(sessions)..MaxNow
    /\ sessions' = AddRow(sessions, keyGenerator, title, time, createSession(EMPTY_DOCUMENT))
    /\ keyGenerator' = keyGenerator + 1
    /\ UNCHANGED <<varsMain, varsGlobal, varsExtract, varsInject, varsPage, varsLayout,
                   migration, thrown>>

\* the session query of MainPage once the migration is over: with no main
\* session it creates a session and asks for the main session again
SessionQuery(time) ==
    /\ migration.pc = "done"
    /\ ~HasSession(sessions, MAIN_SESSION_ID)
    /\ StoreCreateSession("", time)

\* SingleSessionTestUtils.resetMainSession (development mode)
ResetMainSession ==
    /\ HasSession(sessions, MAIN_SESSION_ID)
    /\ sessions' = DeleteRow(sessions, MAIN_SESSION_ID)
    /\ UNCHANGED <<varsMain, varsGlobal, varsExtract, varsInject, varsPage, varsLayout,
                   keyGenerator, migration, thrown>>

\* SessionManager.deleteSession(id)
StoreDeleteSession(id) ==
    /\ HasSession(sessions, id)
    /\ id # MAIN_SESSION_ID
    /\ sessions' = DeleteRow(sessions, id)
    /\ UNCHANGED <<varsMain, varsGlobal, varsExtract, varsInject, varsPage, varsLayout,
                   keyGenerator, migration, thrown>>

NextMigration ==
    \/ EnsureMainSession
    \/ EnsureGetSession
    \/ EnsureToArray
    \/ \E time \in 0..MaxNow : EnsureWrite(time)
    \/ \E title \in {"", "t"}, time \in 0..MaxNow : StoreCreateSession(title, time)
    \/ \E time \in 0..MaxNow : SessionQuery(time)
    \/ ResetMainSession
    \/ \E id \in DOMAIN sessions : StoreDeleteSession(id)

SpecMigration == InitMigration /\ [][NextMigration]_vars

----------------------------------------------------------------------------
(* The claim about the main session                                        *)

\* C22 as stated: when a call of ensureMainSession completes, a session with
\* the main id is in the table, whatever the table held before
C22_MainSessionExistsAfterMigration ==
    [][(migration.pc # "done" /\ migration'.pc = "done")
       => HasSession(sessions', MAIN_SESSION_ID)]_vars

\* C22 witness: ensureMainSession has completed on a table in which other
\* sessions were present and the main session was not, and the main session
\* is there
C22_Witness ==
    /\ migration.pc = "done"
    /\ HasSession(sessions, MAIN_SESSION_ID)
    /\ HasSession(sessions, 2)
    /\ sessions[MAIN_SESSION_ID].title = sessions[2].title
    /\ sessions[MAIN_SESSION_ID].title = "t"

----------------------------------------------------------------------------
(* SpecReset: the input page as in SpecAnalysis, with resets in which one  *)
(* of the three writes is rejected by the store                            *)

ResetFailed == "Failed to reset session"

\* the writes of handleBackToInput, in their order
ResetWrites == 1..3

\* the row after the writes of handleBackToInput that come before the given
\* one (the third write, updateSessionTitle, changes the title only)
ResetUpTo(session, failing) ==
    IF failing = 1 THEN session
    ELSE IF failing = 2 THEN updateInputContent(session, EMPTY_DOCUMENT)
    ELSE updateAnalysedContent(updateInputContent(session, EMPTY_DOCUMENT),
                               EMPTY_DOCUMENT, << >>, << >>)

\* handleBackToInput when its write number failing rejects: the writes
\* before it are stored, the catch sets the error, the mode stays
HandleBackToInputFails(failing) ==
    /\ mode = "analysis"
    /\ ~isTransitioning
    /\ operations < MaxOperations
    /\ operations' = operations + 1
    /\ db' = ResetUpTo(db, failing)
    /\ error' = ResetFailed
    /\ UNCHANGED <<varsGlobal, varsExtract, varsInject, varsLayout, varsStore, varsEditorPage,
                   page, mode, isAnalysing, isTransitioning, analysing>>

NextReset ==
    \/ NextAnalysis
    \/ \E failing \in ResetWrites : HandleBackToInputFails(failing)

SpecReset == InitAnalysis /\ [][NextReset]_vars

\* C23 as stated: a reset in which a write fails leaves the stored input
\* document and the stored triple of document, annotations and
\* relationships as they were before it
C23_FailedResetCommitsNothing ==
    [][\A failing \in ResetWrites :
          HandleBackToInputFails(failing)
          => /\ db'.inputContent = db.inputContent
             /\ db'.analysedContent = db.analysedContent]_vars

\* C23 witness: a reset has failed on an analysed session and the session
\* still has its input document and its annotations
C23_Witness ==
    /\ error = ResetFailed
    /\ mode = "analysis"
    /\ db.hasAnalysedContent
    /\ db.inputContent # EMPTY_DOCUMENT
    /\ db.analysedContent.highlights # << >>

----------------------------------------------------------------------------
(* HighlightButtons: annotations of two types on one range                 *)

\* answers in which the model annotated the same text as a claim and as
\* evidence: createDocumentWithMarks puts both marks on the one run
OverlappingAnswers ==
    { [highlights |-> <<Highlight("c1", "claim", <<"a">>, -1, -1, NoPosition, FALSE),
                        Highlight("e1", "evidence", <<"a">>, -1, -1, NoPosition, FALSE)>>,
       relationships |-> <<Relationship("e1", "c1")>>],
      [highlights |-> <<Highlight("c1", "claim", <<"a">>, -1, -1, NoPosition, FALSE),
                        Highlight("e1", "evidence", <<"a">>, -1, -1, NoPosition, FALSE),
                        Highlight("c2", "claim", <<"b">>, -1, -1, NoPosition, FALSE)>>,
       relationships |-> << >>] }

InitMarks == InitPageOn("text", OverlappingAnswers)

SpecMarks == InitMarks /\ [][NextEditor]_vars

\* the ids handleHighlight(labelId) removes with the cursor in the run (p, i)
RemovedAt(p, i, labelId) ==
    {HighlightsOfType(editorDoc[p][i].marks, highlightMap, labelId)[k].id :
        k \in 1..Len(HighlightsOfType(editorDoc[p][i].marks, highlightMap, labelId))}

\* C24 as stated: removing the mark of one annotation in the editor leaves
\* the id of every other annotation as it was: every id marked in the
\* document before the removal, other than the removed ones, is still marked
\* after it, the ids of another type on exactly the same range included.
C24_RemovalKeepsOtherIds ==
    [][\A p \in 1..Len(editorDoc) :
          \A i \in 1..Len(editorDoc[p]), labelId \in LabelTypes :
             EditorRemoveHighlight(p, i, labelId)
             => MarkedIds(editorDoc) \ RemovedAt(p, i, labelId) \subseteq MarkedIds(editorDoc')]_vars

\* C24 witness: a removal done on a run that carried one annotation only,
\* with the other annotations of the document still marked under their ids
C24_Witness ==
    /\ pendingRemoval
    /\ "c2" \in recentlyRemovedHighlights
    /\ MarkedIds(editorDoc) = {"c1", "e1"}

----------------------------------------------------------------------------
(* ClaimsView: two add operations                                          *)

\* the user adds claims and evidence in the claims view and does nothing else
InitAdds == InitPage("claims")

NextAdds ==
    \/ Render
    \/ \E id \in HighlightIds(Props.highlights), text \in NewTexts :
          ClaimsAddEvidence(id, text)
    \/ \E text \in NewTexts : ClaimsAddClaim(text)
    \/ \E i \in 1..Len(tasks), time \in 0..MaxNow : ClaimsRead(i, time)
    \/ \E i \in 1..Len(tasks) : ClaimsWrite(i)
    \/ \E i \in 1..Len(tasks) : HandlerWrite(i)

SpecAdds == InitAdds /\ [][NextAdds]_vars

\* the annotations of a list that were created outside the editor
CreatedOutside(highlights) ==
    {k \in 1..Len(highlights) : highlights[k].createdInGraphView}

\* C25 as stated: two claims-view add operations (add claim, add evidence)
\* that interleave both take effect: once the two operations and the handlers
\* they triggered have settled, the persisted annotation list holds the two
\* new annotations.
C25_InterleavedAddsBothTakeEffect ==
    (tasks = << >> /\ events = 2)
    => Cardinality(CreatedOutside(db.analysedContent.highlights)) = 2

\* C25 witness: two add operations settled and the persisted list holds the
\* two new annotations
C25_Witness ==
    /\ tasks = << >>
    /\ events = 2
    /\ Cardinality(CreatedOutside(db.analysedContent.highlights)) = 2

----------------------------------------------------------------------------
(* The claims about SessionManager's guards                                *)

\* C26: updateAnalysedContent, saveAnalysis, startAnalysis and
\* getEffectiveContent called for a session that does not exist (and
\* updateAnalysedContent also for a session without analysed content) throw an
\* error to their caller and leave the stored row as it was.
C26_MissingSessionThrowsAndWritesNothing ==
    [][/\ (~db.exists /\ (StartAnalysis \/ GetEffectiveContent))
          => (thrown' = SessionNotFound /\ db' = db)
       /\ \A content \in SessionDocs, highlights \in SessionHighlights,
             relationships \in SessionRelationships :
             /\ (~db.exists /\ SaveAnalysis(content, highlights, relationships))
                => (thrown' = SessionNotFound /\ db' = db)
             /\ ((~db.exists \/ ~db.hasAnalysedContent)
                 /\ UpdateAnalysedContent(content, highlights, relationships))
                => (thrown' # "" /\ db' = db)]_vars

\* C26 witness: an update of the analysed content of a draft session with an
\* input document was thrown back and the row is still a draft without
\* analysed content
C26_Witness ==
    /\ thrown = CannotUpdate
    /\ db.exists /\ ~db.hasAnalysedContent
    /\ db.status = "draft"
    /\ db.inputContent # EMPTY_DOCUMENT
    /\ db.analysedContent = NoAnalysedContent

----------------------------------------------------------------------------
(* SpecTypes: extraction passes over marks that say more or less about     *)
(* their type                                                              *)

\* runs whose mark has an id only (one the registry knows, one it does not),
\* a type only, and a labelType that differs from its type
TypedNodes ==
    { TextNode(<<"a">>, <<Mark("h1", "", "")>>),
      TextNode(<<"a">>, <<Mark("h1", "", "claim")>>),
      TextNode(<<"b">>, <<Mark("h2", "evidence", "claim")>>),
      TextNode(<<"b">>, <<Mark("h2", "", "")>>) }

InitTypes ==
    /\ exContent \in DocsOver(TypedNodes, MaxExtractRuns)
    /\ exExisting = ExistingBaseline
    /\ exCalls = << >>
    /\ recentlyRemovedHighlights = {}
    /\ removalTimers = NoTimers
    /\ highlightMap = InitialRegistry
    /\ IdleInject
    /\ IdleLayout
    /\ IdleStore
    /\ IdlePage
    /\ IdleMain

SpecTypes == InitTypes /\ [][NextExtract]_vars

----------------------------------------------------------------------------
(* The claims about the records of an extraction pass                      *)

\* the marks of a document in reading order, and the first one with an id:
\* the mark a pass makes the id's record from
AllMarks(doc) == Flatten([i \in 1..Len(DocNodes(doc)) |-> DocNodes(doc)[i].marks])

FirstMark(doc, id) ==
    AllMarks(doc)[CHOOSE i \in 1..Len(AllMarks(doc)) :
                     /\ AllMarks(doc)[i].id = id
                     /\ \A j \in 1..(i - 1) : AllMarks(doc)[j].id # id]

\* C27: the type of every record a pass returns is the labelType of the mark
\* when the mark has one, else the mark's type when it has one, else the
\* registry's entry for the id when there is one, else "claim".
C27_TypeResolvedByPriority ==
    \A c \in 1..Len(exCalls) :
        \A k \in 1..Len(exCalls[c].highlights) :
            LET record == exCalls[c].highlights[k]
                mark == FirstMark(exContent, record.id)
                saved == getHighlight(exCalls[c].mapBefore, record.id)
            IN /\ mark.labelType # "" => record.labelType = mark.labelType
               /\ (mark.labelType = "" /\ mark.type # "") => record.labelType = mark.type
               /\ (mark.labelType = "" /\ mark.type = "" /\ saved # "")
                  => record.labelType = saved
               /\ (mark.labelType = "" /\ mark.type = "" /\ saved = "")
                  => record.labelType = "claim"

\* C27 witness: a pass over a mark that has a type and no labelType, for an
\* id the registry knows under another type, returned the mark's type
C27_Witness ==
    \E c \in 1..Len(exCalls) :
        \E k \in 1..Len(exCalls[c].highlights) :
            /\ exCalls[c].highlights[k].id = "h1"
            /\ FirstMark(exContent, "h1") = Mark("h1", "", "claim")
            /\ getHighlight(exCalls[c].mapBefore, "h1") = "evidence"
            /\ exCalls[c].highlights[k].labelType = "claim"

\* the first run (paragraph, node) that carries a mark with the id
FirstRun(doc, id) ==
    CHOOSE run \in {<<p, i>> : p \in 1..Len(doc), i \in 1..MaxExtractRuns + 1} :
        /\ run[2] <= Len(doc[run[1]])
        /\ \E j \in 1..Len(doc[run[1]][run[2]].marks) : doc[run[1]][run[2]].marks[j].id = id
        /\ \A p \in 1..Len(doc) :
              \A i \in 1..Len(doc[p]) :
                 (\E j \in 1..Len(doc[p][i].marks) : doc[p][i].marks[j].id = id)
                 => (run[1] < p \/ (run[1] = p /\ run[2] <= i))

\* the characters that precede the run in reading order: the earlier
\* paragraphs and the earlier runs of its paragraph
CharsBefore(doc, run) ==
    Len(PlainText(SubSeq(doc, 1, run[1] - 1)))
    + Len(ParagraphText(SubSeq(doc[run[1]], 1, run[2] - 1)))

\* C28 as stated: every record a pass returns has startIndex equal to the
\* number of characters that precede its run in the document's reading order,
\* unmarked runs and earlier paragraphs included (with or without one
\* character for each paragraph break), and endIndex equal to startIndex plus
\* the length of its text.
C28_StartIndexIsRunningOffset ==
    \A c \in 1..Len(exCalls) :
        \A k \in 1..Len(exCalls[c].highlights) :
            LET record == exCalls[c].highlights[k]
                run == FirstRun(exContent, record.id)
            IN /\ record.startIndex \in {CharsBefore(exContent, run),
                                          CharsBefore(exContent, run) + run[1] - 1}
               /\ record.endIndex = record.startIndex + Len(record.text)

\* C28 witness: a record of a run that follows a marked run in its paragraph,
\* with the number of characters before it as startIndex
C28_Witness ==
    \E c \in 1..Len(exCalls) :
        \E k \in 1..Len(exCalls[c].highlights) :
            /\ exCalls[c].highlights[k].startIndex > 0
            /\ exCalls[c].highlights[k].startIndex
                  = CharsBefore(exContent, FirstRun(exContent, exCalls[c].highlights[k].id))
            /\ exCalls[c].highlights[k].endIndex = exCalls[c].highlights[k].startIndex + 2

\* the end of a record is its start plus the length of its text
EndIndexFollowsText ==
    \A c \in 1..Len(exCalls) :
        \A k \in 1..Len(exCalls[c].highlights) :
            exCalls[c].highlights[k].endIndex
                = exCalls[c].highlights[k].startIndex + Len(exCalls[c].highlights[k].text)

\* C29: for every id that is marked in the document and has a position in
\* the list the caller supplied, the record a pass returns for the id carries
\* that position.
C29_ExtractionKeepsPositions ==
    \A c \in 1..Len(exCalls) :
        \A k \in 1..Len(exCalls[c].highlights) :
            \A e \in 1..Len(exExisting) :
                (exExisting[e].id = exCalls[c].highlights[k].id
                 /\ exExisting[e].position # NoPosition)
                => exCalls[c].highlights[k].position = exExisting[e].position

\* C29 witness: a pass returned the record of h1 with the position of the
\* caller's list and a record of h2, which has none there, without one
C29_Witness ==
    \E c \in 1..Len(exCalls) :
        /\ Len(exCalls[c].highlights) = 2
        /\ \E k \in 1..2 : /\ exCalls[c].highlights[k].id = "h1"
                            /\ exCalls[c].highlights[k].position = <<10, 20>>
        /\ \E k \in 1..2 : /\ exCalls[c].highlights[k].id = "h2"
                            /\ exCalls[c].highlights[k].position = NoPosition

----------------------------------------------------------------------------
(* The claims about the validation of the model's answer                   *)

\* the answers the statement accepts: an object with an array highlights in
\* which every highlight has a non-empty id, labelType and text, and whose
\* relationships field is absent or an array
AcceptedAsStated(result) ==
    /\ result.isObject
    /\ result.highlights.present /\ result.highlights.isArray
    /\ \A k \in 1..Len(result.highlights.items) :
          /\ result.highlights.items[k].id # ""
          /\ result.highlights.items[k].labelType # ""
          /\ result.highlights.items[k].text # << >>
    /\ (~result.relationships.present \/ result.relationships.isArray)

\* C30 as stated: the validation accepts an answer exactly when it is an
\* object with an array highlights in which every highlight has a non-empty
\* id, labelType and text and whose relationships field is absent or an
\* array (a relationships value that is there and is not an array is
\* rejected), and "highlights: []" without relationships gives an empty
\* annotation list and an empty relationship list.
C30_ValidationAcceptsExactlyWellFormed ==
    [][\A result \in ModelResults :
          RequestAnswered(result)
          => /\ (analysing'.pc = "saveAnalysis") <=> AcceptedAsStated(result)
             /\ result = ModelResult(TRUE, Field(TRUE, TRUE, << >>), NoField)
                => analysing'.analysis = ToSave(TRUE, "", << >>, << >>)]_vars

\* C30 witness: the answer "highlights: []" without relationships has passed
\* the validation with two empty lists
C30_Witness ==
    /\ analysing.pc = "saveAnalysis"
    /\ analysing.response = ModelResult(TRUE, Field(TRUE, TRUE, << >>), NoField)
    /\ analysing.analysis = ToSave(TRUE, "", << >>, << >>)

----------------------------------------------------------------------------
(* SpecWindow: markHighlightAsRemoved called again for an id whose timer   *)
(* is still pending, with extraction passes in between                     *)

MaxPendingTimers == 2    \* pending removal timers per id in SpecWindow

\* SessionManager.markHighlightAsRemoved(id): the id enters the set and one
\* more 500 ms timer is pending for it
MarkHighlightAsRemoved(id) ==
    /\ TimerCount(removalTimers, id) < MaxPendingTimers
    /\ recentlyRemovedHighlights' = AddRecentlyRemoved(recentlyRemovedHighlights, id)
    /\ removalTimers' = ScheduleRemovalTimer(removalTimers, id)
    /\ UNCHANGED <<varsMain, highlightMap, varsExtract, varsInject, varsLayout, varsStore,
                   varsPage>>

NextWindow ==
    \/ \E id \in Ids : MarkHighlightAsRemoved(id)
    \/ \E id \in DOMAIN removalTimers : RemovalTimerFires(id)
    \/ ExExtract

SpecWindow == InitExtract /\ [][NextWindow]_vars

\* C31 as stated: every call markHighlightAsRemoved(id) made at time t keeps
\* id in the recently-removed set from t until t + 500 ms, whatever earlier
\* calls were made for the same id. The timer of a call is pending exactly
\* during the 500 ms after the call, so: as long as a timer is pending for an
\* id, the id is in the set.
C31_PendingTimerMeansExcluded ==
    \A id \in Ids :
        TimerCount(removalTimers, id) > 0 => id \in recentlyRemovedHighlights

\* C31 witness: two calls for h1 whose windows are both open, with h1 in the
\* set, and a pass made in that state
C31_Witness ==
    /\ TimerCount(removalTimers, "h1") = 2
    /\ "h1" \in recentlyRemovedHighlights
    /\ \E c \in 1..Len(exCalls) : "h1" \in exCalls[c].removed

----------------------------------------------------------------------------
(* SpecEdges: ArgumentGraph draws an edge for every relationship and the   *)
(* user deletes edges. An id is written as the sequence of the pieces      *)
(* between its hyphens: "node-17" is <<"node", "17">>; joining with "-"    *)
(* and split("-") are then concatenation and the sequence itself           *)

\* the ids the application produces: from the model's answer, from
\* handleAddNode, handleAddClaim, handleAddEvidence and crypto.randomUUID()
EdgeEndIds ==
    { <<"c1">>, <<"e1">>, <<"node", "17">>, <<"claim", "17">>, <<"evidence", "17">>,
      <<"1b4e28ba", "2fa1", "11d2", "883f", "0016d3cca427">> }

\* `e-${source.id}-${target.id}`
EdgeId(source, target) == <<"e">> \o source \o target

\* the list handleEdgeDelete hands to onRelationshipsChange; the list itself
\* stands for the early return
handleEdgeDelete(edgeId, relationships) ==
    LET idParts == edgeId
    IN IF Len(idParts) < 3 THEN relationships
       ELSE LET sourceId == <<idParts[2]>>
                targetId == SubSeq(idParts, 3, Len(idParts))
            IN SelectSeq(relationships,
                         LAMBDA r : ~(r.sourceHighlightId = sourceId
                                      /\ r.targetHighlightId = targetId))

\* the relationship lists of the graph: one or two edges between different
\* ids, no pair twice
EdgeRelationships ==
    LET pairs == {pair \in EdgeEndIds \X EdgeEndIds : pair[1] # pair[2]}
        seconds == {<<"c1">>, <<"node", "17">>} \X {<<"e1">>}
    IN {<<Relationship(pair[1], pair[2])>> : pair \in pairs}
       \cup {<<Relationship(both[1][1], both[1][2]), Relationship(both[2][1], both[2][2])>> :
                both \in {both \in pairs \X seconds : both[1] # both[2]}}

InitEdges ==
    /\ layRelationships \in EdgeRelationships
    /\ relEmitted = << >>
    /\ layHighlights = << >>
    /\ localStorage = << >>
    /\ layNodes = << >>
    /\ layEmitted = << >>
    /\ layPc = "rendered"
    /\ recentlyRemovedHighlights = {}
    /\ removalTimers = NoTimers
    /\ highlightMap = EmptyMap
    /\ IdleExtract
    /\ IdleInject
    /\ IdlePage
    /\ IdleMain
    /\ IdleStore

\* onEdgeClick on the edge of relationship k, confirmed: handleEdgeDelete
EdgeClick(k) ==
    /\ k \in 1..Len(layRelationships)
    /\ IF relEmitted = << >> THEN TRUE
       ELSE relEmitted[Len(relEmitted)].relationships = layRelationships
    /\ LET edgeId == EdgeId(layRelationships[k].sourceHighlightId,
                            layRelationships[k].targetHighlightId)
       IN relEmitted' = <<[edge |-> k,
                           relationships |-> handleEdgeDelete(edgeId, layRelationships)]>>
    /\ UNCHANGED <<varsMain, varsGlobal, varsExtract, varsInject, varsPage, varsStore,
                   layHighlights, layRelationships, localStorage, layNodes, layEmitted,
                   layPc>>

\* the list handed to onRelationshipsChange is stored and comes back as the
\* relationships prop
RelationshipsUpdateArrives ==
    /\ relEmitted # << >>
    /\ layRelationships # relEmitted[Len(relEmitted)].relationships
    /\ layRelationships' = relEmitted[Len(relEmitted)].relationships
    /\ UNCHANGED <<varsMain, varsGlobal, varsExtract, varsInject, varsPage, varsStore,
                   layHighlights, localStorage, layNodes, layEmitted, layPc, relEmitted>>

NextEdges ==
    \/ \E k \in 1..Len(layRelationships) : EdgeClick(k)
    \/ RelationshipsUpdateArrives

SpecEdges == InitEdges /\ [][NextEdges]_vars

\* C32 as stated: deleting the edge between s and t removes from the
\* relationship list exactly the relationship (s, t) and no other, for every
\* pair of ids the application produces, ids with hyphens included.
C32_EdgeDeleteRemovesExactlyItsRelationship ==
    [][\A k \in 1..Len(layRelationships) :
          EdgeClick(k)
          => relEmitted'[1].relationships
               = SelectSeq(layRelationships, LAMBDA r : r # layRelationships[k])]_vars

\* C32 witness: the edge between two ids without hyphens was deleted from a
\* list of two and the other relationship is what is left
C32_Witness ==
    /\ relEmitted # << >>
    /\ layRelationships = <<Relationship(<<"e1">>, <<"c1">>),
                            Relationship(<<"node", "17">>, <<"e1">>)>>
    /\ relEmitted[1].edge = 1
    /\ relEmitted[1].relationships = <<Relationship(<<"node", "17">>, <<"e1">>)>>

----------------------------------------------------------------------------
(* SpecTyping: the user types in the text view and breaks lines; every     *)
(* change of the document is delivered to handleEditorChange               *)

\* Enter with the cursor at the start of the document: an empty paragraph
\* (a paragraph node without content) before the text; the editor reports
\* the new document to handleEditorChange, unflagged
EditorEnterAtStart ==
    /\ viewMode = "text"
    /\ events < MaxEvents /\ TaskLoad < MaxTasks
    /\ editorDoc # << >> /\ editorDoc[1] # << >>
    /\ LET json == <<<< >>>> \o editorDoc
           out == handleEditorChange(page.session, page.pendingHighlightRemoval, json,
                                     FALSE, recentlyRemovedHighlights, highlightMap,
                                     events + 1)
       IN /\ editorDoc' = json
          /\ tasks' = tasks \o out.tasks
          /\ highlightMap' = out.map
    /\ events' = events + 1
    /\ UNCHANGED <<varsMain, recentlyRemovedHighlights, removalTimers, varsExtract, varsInject, varsLayout, varsStore, db,
                   page, viewMode, editorKey, pendingRemoval, pendingHighlightRemoval,
                   pendingResets, saveTimers, now, uuids, opTrace>>

NextTyping ==
    \/ Render
    \/ \E p \in 1..Len(editorDoc) :
          \E i \in 1..Len(editorDoc[p]), text \in EditTexts : EditorInput(p, i, text)
    \/ EditorEnterAtStart
    \/ \E i \in 1..Len(tasks) : HandlerWrite(i)

SpecTyping == InitEditor /\ [][NextTyping]_vars

\* C33 as stated: every content-change event delivered to handleEditorChange
\* ends in a write of the event's document (here: the handler queues the
\* write of the document the editor reported), for every document, one with
\* an empty first paragraph before paragraphs with text included.
C33_EveryChangeIsWritten ==
    [][events' = events + 1
       => \E i \in 1..Len(tasks') :
             /\ tasks'[i].eventNo = events'
             /\ tasks'[i].pc = "write"
             /\ tasks'[i].content = editorDoc']_vars

\* C33 witness: a typed change was delivered and its document is the stored
\* analysed document
C33_Witness ==
    /\ events = 1
    /\ tasks = << >>
    /\ editorDoc # EditorState(InitialInput)
    /\ editorDoc[1] # << >>
    /\ db.analysedContent.content = editorDoc

----------------------------------------------------------------------------
(* SpecGrid: createRelationshipBasedLayout over annotations that have no   *)
(* position yet, of the label types the model's answers carry              *)

\* labelType values of the analysis prompt
GridTypes == {"claim", "counterargument", "question", "evidence"}

\* three annotations; the third has an id of its own or, as in an answer of
\* the model that repeats an id, the id of the first
GridHighlights ==
    { <<Highlight("g1", t1, <<"a">>, -1, -1, NoPosition, FALSE),
        Highlight("g2", t2, <<"b">>, -1, -1, NoPosition, FALSE),
        Highlight(id3, t3, <<"c">>, -1, -1, NoPosition, FALSE)>> :
          t1 \in GridTypes, t2 \in GridTypes, t3 \in GridTypes, id3 \in {"g3", "g1"} }

GridRelationships ==
    { << >>, <<Relationship("g1", "g3")>>,
      <<Relationship("g3", "g2"), Relationship("g3", "g1")>>,
      <<Relationship("g2", "g3"), Relationship("g3", "g1")>> }

InitGrid ==
    /\ layHighlights \in GridHighlights
    /\ layRelationships \in GridRelationships
    /\ localStorage = << >>
    /\ layNodes = << >>
    /\ layEmitted = << >>
    /\ layPc = "effect"
    /\ relEmitted = << >>
    /\ recentlyRemovedHighlights = {}
    /\ removalTimers = NoTimers
    /\ highlightMap = EmptyMap
    /\ IdleExtract
    /\ IdleInject
    /\ IdlePage
    /\ IdleMain
    /\ IdleStore

\* the two grid passes over the initial nodes
GridLayout ==
    /\ layPc = "effect"
    /\ layNodes' = createRelationshipBasedLayout(InitialNodes(layHighlights),
                                                 layRelationships)
    /\ layPc' = "rendered"
    /\ UNCHANGED <<varsMain, varsGlobal, varsExtract, varsInject, varsPage, varsStore,
                   layHighlights, layRelationships, localStorage, layEmitted, relEmitted>>

NextGrid == GridLayout

SpecGrid == InitGrid /\ [][NextGrid]_vars

\* the grid cell of a node, from its coordinates
ColumnOf(node) == (node.position[1] - 50) \div (350 + 80)

RowOf(node) == (node.position[2] - 50) \div 100

\* the place of a type in the order claim, counterargument, question,
\* evidence, assumption, implication, cause, every other type after them
StatedRank(labelType) ==
    CASE labelType = "claim" -> 0
      [] labelType = "counterargument" -> 1
      [] labelType = "question" -> 2
      [] labelType = "evidence" -> 3
      [] labelType = "assumption" -> 4
      [] labelType = "implication" -> 5
      [] labelType = "cause" -> 6
      [] OTHER -> 7

\* C34 as stated: the type-grid pass gives the columns in the order claim,
\* counterargument, question, evidence, assumption, implication, cause,
\* others last: of two annotations of different types the one whose type
\* comes earlier in this order has the lower column.
C34_ColumnsFollowStatedOrder ==
    layPc = "rendered"
    => \A i, j \in 1..Len(layNodes) :
          StatedRank(layNodes[i].labelType) < StatedRank(layNodes[j].labelType)
          => ColumnOf(layNodes[i]) < ColumnOf(layNodes[j])

\* C34 witness: a claim, a question and an evidence annotation, given in
\* another order, stand in columns 0, 1 and 2
C34_Witness ==
    /\ layPc = "rendered"
    /\ Len(layNodes) = 3
    /\ layNodes[1].labelType = "evidence" /\ ColumnOf(layNodes[1]) = 2
    /\ layNodes[2].labelType = "claim" /\ ColumnOf(layNodes[2]) = 0
    /\ layNodes[3].labelType = "question" /\ ColumnOf(layNodes[3]) = 1

\* C35 as stated: after the type-grid pass and the relationship-adjacency
\* pass no two nodes stand in the same (column, row) cell, for every list of
\* nodes and every list of relationships.
C35_NoTwoNodesInOneCell ==
    layPc = "rendered"
    => \A i, j \in 1..Len(layNodes) :
          i # j => <<ColumnOf(layNodes[i]), RowOf(layNodes[i])>>
                     # <<ColumnOf(layNodes[j]), RowOf(layNodes[j])>>

\* the same for the lists whose ids are pairwise different
NoTwoNodesInOneCellForDistinctIds ==
    Cardinality(HighlightIds(layHighlights)) = Len(layHighlights)
    => C35_NoTwoNodesInOneCell

\* C35 witness: two nodes of one type and a third in the next column, related
\* to the node in row 1 of the first column, whose row 0 is taken: the two
\* nodes of one type stand in rows 0 and 1
C35_Witness ==
    /\ layPc = "rendered"
    /\ layRelationships = <<Relationship("g3", "g2"), Relationship("g3", "g1")>>
    /\ Len(layNodes) = 3
    /\ HighlightIds(layHighlights) = {"g1", "g2", "g3"}
    /\ ColumnOf(layNodes[1]) = 0 /\ RowOf(layNodes[1]) = 0
    /\ ColumnOf(layNodes[2]) = 0 /\ RowOf(layNodes[2]) = 1
    /\ ColumnOf(layNodes[3]) = 1 /\ RowOf(layNodes[3]) = 0

----------------------------------------------------------------------------
(* SpecReinject: an annotation list whose texts stand in the document is   *)
(* injected, and injected again into the result, as the page handlers do   *)
(* with the stored document                                                *)

\* documents of one and two paragraphs, without marks and with the mark of
\* an earlier injection
ReinjectDocs ==
    { <<<<TextNode(<<"a", "b">>, << >>)>>>>,
      <<<<TextNode(<<"a", "b", "c">>, << >>)>>>>,
      <<<<TextNode(<<"a", "b">>, << >>)>>, <<TextNode(<<"b">>, << >>)>>>>,
      <<<<TextNode(<<"a">>, << >>)>>, <<TextNode(<<"b", "c">>, << >>)>>>>,
      <<<<TextNode(<<"a">>, <<FullMark("h1", "claim")>>)>>,
        <<TextNode(<<"c", "a">>, << >>)>>>> }

ReinjectTexts == { <<"a">>, <<"b">>, <<"a", "b">>, <<"b", "c">> }

\* lists of one or two annotations with different ids
ReinjectAnnotations ==
    { <<Highlight("h1", "claim", t1, -1, -1, NoPosition, FALSE)>> : t1 \in ReinjectTexts }
    \cup { <<Highlight("h1", "claim", t1, -1, -1, NoPosition, FALSE),
             Highlight("h2", "evidence", t2, -1, -1, NoPosition, FALSE)>> :
               t1 \in ReinjectTexts, t2 \in ReinjectTexts }

\* every text of the list is a verbatim substring of a paragraph
TextsStandIn(doc, annotations) ==
    \A k \in 1..Len(annotations) :
        \E p \in 1..Len(doc) : Includes(ParagraphText(doc[p]), annotations[k].text)

InitReinject ==
    /\ injContent \in ReinjectDocs
    /\ injAnnotations \in ReinjectAnnotations
    /\ TextsStandIn(injContent, injAnnotations)
    /\ injEdit = NoEdit
    /\ injResult = << >>
    /\ injPc = "extracted"
    /\ recentlyRemovedHighlights = {}
    /\ removalTimers = NoTimers
    /\ highlightMap = EmptyMap
    /\ IdleExtract
    /\ IdlePage
    /\ IdleMain
    /\ IdleLayout
    /\ IdleStore

\* createDocumentWithMarks(stored document, list) over the result of the
\* injection before
InjInjectAgain ==
    /\ injPc = "injected"
    /\ injResult' = createDocumentWithMarks(injResult, injAnnotations)
    /\ highlightMap' = RegisterAnnotations(highlightMap, injAnnotations)
    /\ injPc' = "reinjected"
    /\ UNCHANGED <<varsMain, varsLayout, varsStore, recentlyRemovedHighlights, removalTimers, injContent, injAnnotations,
                   injEdit, varsExtract, varsPage>>

NextReinject ==
    \/ InjInject
    \/ InjInjectAgain

SpecReinject == InitReinject /\ [][NextReinject]_vars

\* C36 as stated: injection is idempotent: for a list whose texts are
\* verbatim substrings of the document, texts that lie inside one another
\* included, injecting the list into the result of injecting it gives that
\* result again.
C36_InjectionIdempotent ==
    injPc = "reinjected"
    => injResult = createDocumentWithMarks(injContent, injAnnotations)

\* C36 witness: two annotations on texts side by side were injected twice
\* and the second result is the first
C36_Witness ==
    /\ injPc = "reinjected"
    /\ injContent = <<<<TextNode(<<"a", "b">>, << >>)>>>>
    /\ Len(injAnnotations) = 2
    /\ injAnnotations[1].text = <<"a">> /\ injAnnotations[2].text = <<"b">>
    /\ injResult = createDocumentWithMarks(injContent, injAnnotations)
    /\ injResult # injContent

\* the paragraphs of a document with a mark of this id
ParagraphsMarked(doc, id) ==
    {p \in 1..Len(doc) :
        \E i \in 1..Len(doc[p]) : \E j \in 1..Len(doc[p][i].marks) :
            doc[p][i].marks[j].id = id}

\* C37 as stated: after an injection into a document of several paragraphs
\* each annotation id is marked in at most one paragraph: an annotation with
\* a mark keeps that mark only, and the search for the text places a mark
\* only for an annotation without one, also when the text stands in more
\* than one paragraph.
C37_OneParagraphPerAnnotation ==
    injPc = "injected"
    => \A k \in 1..Len(injAnnotations) :
          Cardinality(ParagraphsMarked(injResult, injAnnotations[k].id)) <= 1

\* C37 witness: two annotations injected into a document of two paragraphs,
\* each marked in the one paragraph where its text stands
C37_Witness ==
    /\ injPc = "injected"
    /\ Len(injContent) = 2
    /\ Len(injAnnotations) = 2
    /\ ParagraphsMarked(injContent, "h1") = {}
    /\ ParagraphsMarked(injResult, "h1") = {1}
    /\ ParagraphsMarked(injResult, "h2") = {2}

----------------------------------------------------------------------------
(* SpecCommit: the main page analyses a text and commits the answer of the *)
(* model, whose ids are the model's choice                                 *)

\* answers that pass for well formed: the ids of the prompt's example, and
\* the same id given to two highlights
AnswersWithIds ==
    { ModelResult(TRUE,
                  Field(TRUE, TRUE, <<RawHighlight("1", "claim", <<"a">>),
                                      RawHighlight("2", "evidence", <<"b">>)>>),
                  Field(TRUE, TRUE, <<Relationship("2", "1")>>)),
      ModelResult(TRUE,
                  Field(TRUE, TRUE, <<RawHighlight("1", "claim", <<"a">>),
                                      RawHighlight("1", "evidence", <<"b">>)>>),
                  Field(TRUE, TRUE, << >>)) }

NextCommit ==
    \/ RenderMain
    \/ \E json \in InputDocs : HandleContentChange(json)
    \/ HandleAnalyse
    \/ PerformAnalysis
    \/ \E result \in AnswersWithIds : RequestAnswered(result)
    \/ SaveAnalysisResults
    \/ HandleAnalyseSettled
    \/ TransitionEnds
    \/ HandleBackToInput

SpecCommit == InitAnalysis /\ [][NextCommit]_vars

----------------------------------------------------------------------------
(* The claim about the ids of the stored annotation list                   *)

\* C38 as stated: in every state of the stored session the ids of the
\* annotation list are pairwise different, lists committed from an answer of
\* the model and ids made from Date.now() included.
C38_StoredIdsPairwiseDistinct ==
    db.hasAnalysedContent
    => \A i, j \in 1..Len(db.analysedContent.highlights) :
          db.analysedContent.highlights[i].id = db.analysedContent.highlights[j].id
          => i = j

\* C38 witness: an answer with the ids 1 and 2 was committed and the stored
\* list holds two annotations with these two ids
C38_Witness ==
    /\ db.hasAnalysedContent
    /\ analysing.pc = "idle"
    /\ Len(db.analysedContent.highlights) = 2
    /\ HighlightIds(db.analysedContent.highlights) = {"1", "2"}

====
